---- MODULE Spec2Model ----
(***************************************************************************)
(* A model of the article summariser: ArticleScraper (article_scraper.py)  *)
(* and ArticleSummarizer (summarizer.py).  Python strings are TLA+         *)
(* strings; the str methods the code uses are operators that compute what  *)
(* the methods compute.  A Python call that can raise returns a record     *)
(* with a field "raised".                                                  *)
(***************************************************************************)
EXTENDS Integers, Sequences, FiniteSets, TLC

(***************************************************************************)
(* Python str methods                                                      *)
(***************************************************************************)
LowerChars == "abcdefghijklmnopqrstuvwxyz"

UpperChars == "ABCDEFGHIJKLMNOPQRSTUVWXYZ"

DigitChars == "0123456789"

WhitespaceChars == " \t\n\r"

Char(s, i) == SubSeq(s, i, i)

\* s[i:] of Python, with i counted from 1
From(s, i) == SubSeq(s, i, Len(s))

\* the position of the character c in the string alphabet, 0 if absent
IndexIn(c, alphabet) ==
    IF \E i \in 1..Len(alphabet) : Char(alphabet, i) = c
    THEN CHOOSE i \in 1..Len(alphabet) : Char(alphabet, i) = c
    ELSE 0

IsLower(c) == IndexIn(c, LowerChars) # 0

IsUpper(c) == IndexIn(c, UpperChars) # 0

IsAlpha(c) == IsLower(c) \/ IsUpper(c)

IsSpace(c) == IndexIn(c, WhitespaceChars) # 0

ToLower(c) == IF IsUpper(c) THEN Char(LowerChars, IndexIn(c, UpperChars)) ELSE c

ToUpper(c) == IF IsLower(c) THEN Char(UpperChars, IndexIn(c, LowerChars)) ELSE c

\* s.startswith(p)
StartsWith(s, p) == Len(s) >= Len(p) /\ SubSeq(s, 1, Len(p)) = p

\* s.find(sub, from): the first position >= from where sub occurs, 0 if none
Find(s, sub, from) ==
    LET hits == {i \in from..(Len(s) - Len(sub) + 1) : SubSeq(s, i, i + Len(sub) - 1) = sub}
    IN IF hits = {} THEN 0 ELSE CHOOSE i \in hits : \A j \in hits : i <= j

\* sub in s
Contains(s, sub) == Find(s, sub, 1) # 0

\* s.replace(old, new), old non-empty: every occurrence, left to right
RECURSIVE Replace(_, _, _)
Replace(s, old, new) ==
    LET i == Find(s, old, 1)
    IN IF i = 0 THEN s
       ELSE SubSeq(s, 1, i - 1) \o new \o Replace(From(s, i + Len(old)), old, new)

\* s.split(sep), sep non-empty: the sequence of the pieces
RECURSIVE Split(_, _)
Split(s, sep) ==
    LET i == Find(s, sep, 1)
    IN IF i = 0 THEN <<s>>
       ELSE <<SubSeq(s, 1, i - 1)>> \o Split(From(s, i + Len(sep)), sep)

\* s.lower()
RECURSIVE Lower(_)
Lower(s) == IF s = "" THEN "" ELSE ToLower(Char(s, 1)) \o Lower(From(s, 2))

\* s.upper()
RECURSIVE Upper(_)
Upper(s) == IF s = "" THEN "" ELSE ToUpper(Char(s, 1)) \o Upper(From(s, 2))

\* s.title(): a letter after a letter is lowered, any other letter is raised
RECURSIVE TitleFrom(_, _)
TitleFrom(s, prevCased) ==
    IF s = "" THEN ""
    ELSE LET c == Char(s, 1)
         IN (IF prevCased THEN ToLower(c) ELSE ToUpper(c)) \o TitleFrom(From(s, 2), IsAlpha(c))

Title(s) == TitleFrom(s, FALSE)

\* s.lstrip(chars), s.rstrip(chars), s.strip(chars)
RECURSIVE LStripChars(_, _)
LStripChars(s, chars) ==
    IF s # "" /\ IndexIn(Char(s, 1), chars) # 0 THEN LStripChars(From(s, 2), chars) ELSE s

RECURSIVE RStripChars(_, _)
RStripChars(s, chars) ==
    IF s # "" /\ IndexIn(Char(s, Len(s)), chars) # 0
    THEN RStripChars(SubSeq(s, 1, Len(s) - 1), chars)
    ELSE s

StripChars(s, chars) == RStripChars(LStripChars(s, chars), chars)

\* s.strip()
Strip(s) == StripChars(s, WhitespaceChars)

\* n copies of s
RECURSIVE Repeat(_, _)
Repeat(s, n) == IF n <= 0 THEN "" ELSE s \o Repeat(s, n - 1)

(***************************************************************************)
(* urllib.parse.urlparse, as far as the scraper reads it: the netloc, and  *)
(* the ValueError ("Invalid IPv6 URL") for a netloc with one bracket only  *)
(***************************************************************************)
SchemeExtraChars == "+-."

IsSchemeChar(c) == IsAlpha(c) \/ IndexIn(c, DigitChars) # 0 \/ IndexIn(c, SchemeExtraChars) # 0

NetlocDelims == "/?#"

\* the netloc of a string that starts with "//": up to the first of / ? #
SplitNetloc(rest) ==
    LET ends == {i \in 3..Len(rest) : IndexIn(Char(rest, i), NetlocDelims) # 0}
        stop == IF ends = {} THEN Len(rest) + 1 ELSE CHOOSE i \in ends : \A j \in ends : i <= j
    IN SubSeq(rest, 3, stop - 1)

\* url without its scheme, i the position of the first ":" (0 if none)
AfterScheme(url, i) ==
    IF /\ i > 1
       /\ IsAlpha(Char(url, 1))
       /\ \A k \in 1..(i - 1) : IsSchemeChar(Char(url, k))
    THEN From(url, i + 1)
    ELSE url

NetlocOf(rest) == IF StartsWith(rest, "//") THEN SplitNetloc(rest) ELSE ""

CheckedNetloc(netloc) ==
    IF Contains(netloc, "[") # Contains(netloc, "]")
    THEN [raised |-> TRUE, netloc |-> ""]
    ELSE [raised |-> FALSE, netloc |-> netloc]

urlparse(url) == CheckedNetloc(NetlocOf(AfterScheme(url, Find(url, ":", 1))))

(***************************************************************************)
(* ArticleScraper: the publication mapping                                 *)
(***************************************************************************)
NoMappings == [d \in {} |-> ""]

\* The resource publication_mappings.json as __init__ can find it: absent,
\* unreadable (json.load raises), or one of two tables of the expected shape.
TableA ==
    ("theguardian.com" :> "The Guardian") @@ ("www.bbc.co.uk" :> "BBC News")
    @@ ("news.sky.com" :> "Sky News") @@ ("wsj.com" :> "The Wall Street Journal")

TableB ==
    ("edition.cnn.com" :> "CNN International") @@ ("www.thetimes.co.uk" :> "The Times")
    @@ ("m.example.org" :> "Example Mobile") @@ ("foo-bar.com" :> "Foo Bar Daily")

MappingResources ==
    { [state |-> "missing", table |-> NoMappings],
      [state |-> "unreadable", table |-> NoMappings],
      [state |-> "present", table |-> TableA],
      [state |-> "present", table |-> TableB] }

_load_publication_mappings(resource) ==
    IF resource.state = "present" THEN resource.table
    ELSE IF resource.state = "missing" THEN NoMappings
    ELSE NoMappings

prefixes_to_remove == <<"www.", "edition.", "amp.", "m.", "mobile.", "news.">>

legacy_mappings ==
    ("nytimes" :> "The New York Times") @@ ("wsj" :> "The Wall Street Journal")
    @@ ("ft" :> "Financial Times") @@ ("bbc" :> "BBC News") @@ ("cnn" :> "CNN")
    @@ ("reuters" :> "Reuters") @@ ("bloomberg" :> "Bloomberg")
    @@ ("theguardian" :> "The Guardian") @@ ("washingtonpost" :> "The Washington Post")
    @@ ("economist" :> "The Economist") @@ ("forbes" :> "Forbes")
    @@ ("businessinsider" :> "Business Insider") @@ ("techcrunch" :> "TechCrunch")
    @@ ("wired" :> "Wired") @@ ("vox" :> "Vox") @@ ("politico" :> "Politico")
    @@ ("axios" :> "Axios") @@ ("theatlantic" :> "The Atlantic")
    @@ ("newyorker" :> "The New Yorker") @@ ("buzzfeed" :> "BuzzFeed")
    @@ ("huffpost" :> "HuffPost") @@ ("slate" :> "Slate") @@ ("salon" :> "Salon")
    @@ ("thedailybeast" :> "The Daily Beast") @@ ("thehill" :> "The Hill")
    @@ ("motherjones" :> "Mother Jones") @@ ("theintercept" :> "The Intercept")
    @@ ("propublica" :> "ProPublica") @@ ("apnews" :> "Associated Press")
    @@ ("npr" :> "NPR") @@ ("cbsnews" :> "CBS News") @@ ("nbcnews" :> "NBC News")
    @@ ("abcnews" :> "ABC News") @@ ("foxnews" :> "Fox News")
    @@ ("usatoday" :> "USA Today") @@ ("latimes" :> "Los Angeles Times")
    @@ ("chicagotribune" :> "Chicago Tribune") @@ ("bostonglobe" :> "The Boston Globe")
    @@ ("seattletimes" :> "The Seattle Times") @@ ("denverpost" :> "The Denver Post")
    @@ ("miamiherald" :> "Miami Herald") @@ ("startribune" :> "Star Tribune")
    @@ ("dallasnews" :> "The Dallas Morning News")
    @@ ("sfchronicle" :> "San Francisco Chronicle") @@ ("newsweek" :> "Newsweek")
    @@ ("time" :> "TIME") @@ ("fortune" :> "Fortune") @@ ("cnbc" :> "CNBC")
    @@ ("marketwatch" :> "MarketWatch") @@ ("barrons" :> "Barron's")
    @@ ("investopedia" :> "Investopedia") @@ ("morningstar" :> "Morningstar")
    @@ ("seekingalpha" :> "Seeking Alpha") @@ ("benzinga" :> "Benzinga")
    @@ ("thestreet" :> "TheStreet")

\* the loop over prefixes_to_remove, from its k-th prefix on: one pass, each
\* prefix tried once in the list's order, the mapping re-checked after a strip
RECURSIVE PrefixLoop(_, _, _)
PrefixLoop(mappings, clean_domain, k) ==
    IF k > Len(prefixes_to_remove)
    THEN [found |-> FALSE, name |-> "", clean_domain |-> clean_domain]
    ELSE LET prefix == prefixes_to_remove[k]
             stripped == From(clean_domain, Len(prefix) + 1)
         IN IF ~StartsWith(clean_domain, prefix)
            THEN PrefixLoop(mappings, clean_domain, k + 1)
            ELSE IF stripped \in DOMAIN mappings
                 THEN [found |-> TRUE, name |-> mappings[stripped], clean_domain |-> stripped]
                 ELSE PrefixLoop(mappings, stripped, k + 1)

\* the legacy lookup and the title-case fallbacks, parts the cleaned domain
\* split at "."
LegacyLookup(clean_domain, parts, pub_name) ==
    IF Len(parts) >= 2
    THEN IF pub_name \in DOMAIN legacy_mappings
         THEN legacy_mappings[pub_name]
         ELSE Title(Replace(Replace(parts[1], "-", " "), "_", " "))
    ELSE Title(clean_domain)

LegacyParts(clean_domain, parts) == LegacyLookup(clean_domain, parts, Lower(parts[1]))

LegacyName(clean_domain) == LegacyParts(clean_domain, Split(clean_domain, "."))

\* the outcome of the prefix loop, or the fallbacks when it found nothing
AfterPrefixLoop(loop) == IF loop.found THEN loop.name ELSE LegacyName(loop.clean_domain)

\* mutant: the lookup of "www." + domain is left out
PublicationNameOfNoWwwAdded(mappings, domain, domain_no_www, domain_with_www) ==
    IF domain \in DOMAIN mappings THEN mappings[domain]
    ELSE IF domain_no_www \in DOMAIN mappings THEN mappings[domain_no_www]
    ELSE AfterPrefixLoop(PrefixLoop(mappings, domain, 1))

\* the lookups of extract_publication_name for the netloc of the URL
PublicationNameOf(mappings, domain, domain_no_www, domain_with_www) ==
    IF domain \in DOMAIN mappings THEN mappings[domain]
    ELSE IF domain_no_www \in DOMAIN mappings THEN mappings[domain_no_www]
    ELSE IF ~StartsWith(domain, "www.") /\ domain_with_www \in DOMAIN mappings
         THEN mappings[domain_with_www]
    ELSE AfterPrefixLoop(PrefixLoop(mappings, domain, 1))

PublicationNameParsed(mappings, parsed) ==
    IF parsed.raised THEN [raised |-> TRUE, value |-> ""]
    ELSE [raised |-> FALSE,
          value |-> PublicationNameOf(mappings, parsed.netloc,
                                      Replace(parsed.netloc, "www.", ""),
                                      "www." \o parsed.netloc)]

\* the body of the try block of extract_publication_name
PublicationNameTry(mappings, url) == PublicationNameParsed(mappings, urlparse(url))

\* mutant: no except clause
CatchNothing(r) == r

\* "except Exception: return ''"
CatchAll(r) == IF r.raised THEN [raised |-> FALSE, value |-> ""] ELSE r

\* extract_publication_name: the try block, and "" on any exception
extract_publication_name(mappings, url) == CatchAll(PublicationNameTry(mappings, url))

(***************************************************************************)
(* ArticleScraper: the two extraction methods and scrape_article           *)
(***************************************************************************)
MIN_NEWSPAPER_TEXT == 100

paywall_domains ==
    { "wsj.com", "ft.com", "economist.com", "telegraph.co.uk", "thetimes.co.uk",
      "hbr.org", "theatlantic.com", "foreignaffairs.com", "seekingalpha.com",
      "barrons.com", "investors.com", "nytimes.com", "washingtonpost.com",
      "bloomberg.com", "businessinsider.com", "wired.com" }

\* what an extraction method returns: None, or the dict it builds
None == [isNone |-> TRUE]

Dict(text, title, author, publication) ==
    [isNone |-> FALSE, text |-> text, title |-> title, author |-> author,
     publication |-> publication]

\* "result and result.get('text')"
HasText(r) == ~r.isNone /\ r.text # ""

\* ', '.join(authors)
RECURSIVE Join(_)
Join(authors) ==
    IF authors = <<>> THEN ""
    ELSE IF Len(authors) = 1 THEN authors[1]
    ELSE authors[1] \o ", " \o Join(Tail(authors))

\* What the trafilatura library answers for one URL: fetch_url gives the page,
\* nothing, or raises; extract gives a text, nothing ("" stands for None and
\* ""), or raises; extract_metadata gives title and author ("" for a missing
\* one), or raises.
\* mutant: the publication is taken from the metadata the extractor reports
scrape_with_trafilatura_sitename(mappings, url, lib) ==
    IF lib.fetch # "ok" \/ lib.extract = "raise" \/ lib.text = "" \/ lib.metadata = "raise"
    THEN None
    ELSE Dict(lib.text, lib.title, lib.author, lib.sitename)

scrape_with_trafilatura(mappings, url, lib) ==
    IF lib.fetch = "raise" THEN None
    ELSE IF lib.fetch = "none" THEN None
    ELSE IF lib.extract = "raise" THEN None
    ELSE IF lib.text = "" THEN None
    ELSE IF lib.metadata = "raise" THEN None
    ELSE Dict(lib.text, lib.title, lib.author, extract_publication_name(mappings, url).value)

\* What the newspaper library answers for one URL: download and parse raise
\* or leave text ("" for None and ""), title and authors in the article.
\* mutant: the length test on the text as extracted, not stripped
scrape_with_newspaper_raw_len(mappings, url, lib) ==
    IF lib.parse = "raise" THEN None
    ELSE IF lib.text = "" \/ Len(lib.text) < MIN_NEWSPAPER_TEXT THEN None
    ELSE Dict(lib.text, lib.title, Join(lib.authors),
              extract_publication_name(mappings, url).value)

scrape_with_newspaper(mappings, url, lib) ==
    IF lib.parse = "raise" THEN None
    ELSE IF lib.text = "" \/ Len(Strip(lib.text)) < MIN_NEWSPAPER_TEXT THEN None
    ELSE Dict(lib.text, lib.title, Join(lib.authors),
              extract_publication_name(mappings, url).value)

\* "not url or not url.startswith(('http://', 'https://'))"
InvalidUrl(url) == url = "" \/ ~(StartsWith(url, "http://") \/ StartsWith(url, "https://"))

\* mutant: the host must equal a paywall domain
IsLikelyPaywalledExact(netloc) == Replace(netloc, "www.", "") \in paywall_domains

IsLikelyPaywalled(netloc) ==
    LET domain == Replace(netloc, "www.", "")
    IN \E paywall \in paywall_domains : Contains(domain, paywall)

ValidationError == "Please enter a valid URL starting with http:// or https://"

ErrorPrefix == "Unable to extract article content from this URL. "

PaywallError ==
    ErrorPrefix \o "This site often has paywalled content. Please copy and paste the article text manually if you have access."

GenericError ==
    ErrorPrefix \o "The page might be behind a paywall, use dynamic content loading, or have an unusual structure. Please copy and paste the article text manually."

Success(r, method, paywalled) ==
    [success |-> TRUE, text |-> r.text, title |-> r.title, author |-> r.author,
     publication |-> r.publication, method |-> method, paywall_warning |-> paywalled]

\* the dict scrape_article returns when both methods failed
Failure(paywalled, publication) ==
    [success |-> FALSE,
     error |-> IF paywalled THEN PaywallError ELSE GenericError,
     publication |-> publication]

\* mutant: the secondary method is invoked whatever the primary returned
ScrapeAttemptsEager(mappings, url, paywalled, primary, secondary) ==
    IF HasText(primary)
    THEN [raised |-> FALSE, calls |-> <<"trafilatura", "newspaper4k">>,
          value |-> Success(primary, "trafilatura", paywalled)]
    ELSE IF HasText(secondary)
    THEN [raised |-> FALSE, calls |-> <<"trafilatura", "newspaper4k">>,
          value |-> Success(secondary, "newspaper4k", paywalled)]
    ELSE [raised |-> FALSE, calls |-> <<"trafilatura", "newspaper4k">>,
          value |-> Failure(paywalled, extract_publication_name(mappings, url).value)]

\* scrape_article after the primary attempt returned primary: the secondary
\* attempt is made only when primary has no text.  calls lists the
\* extraction methods invoked, in order.
ScrapeAttempts(mappings, url, paywalled, primary, secondary) ==
    IF HasText(primary)
    THEN [raised |-> FALSE, calls |-> <<"trafilatura">>,
          value |-> Success(primary, "trafilatura", paywalled)]
    ELSE IF HasText(secondary)
    THEN [raised |-> FALSE, calls |-> <<"trafilatura", "newspaper4k">>,
          value |-> Success(secondary, "newspaper4k", paywalled)]
    ELSE [raised |-> FALSE, calls |-> <<"trafilatura", "newspaper4k">>,
          value |-> Failure(paywalled, extract_publication_name(mappings, url).value)]

\* scrape_article for the parsed URL
ScrapeParsed(mappings, url, parsed_url, tlib, nlib) ==
    IF parsed_url.raised
    THEN [raised |-> TRUE, calls |-> <<>>, value |-> [success |-> FALSE]]
    ELSE ScrapeAttempts(mappings, url, IsLikelyPaywalled(parsed_url.netloc),
                        scrape_with_trafilatura(mappings, url, tlib),
                        scrape_with_newspaper(mappings, url, nlib))

\* mutant: no validation of the URL
scrape_article_unvalidated(mappings, url, tlib, nlib) ==
    ScrapeParsed(mappings, url, urlparse(url), tlib, nlib)

\* scrape_article(url): the value returned, or raised when urlparse raises
\* (line 268 is outside every try block)
scrape_article(mappings, url, tlib, nlib) ==
    IF InvalidUrl(url)
    THEN [raised |-> FALSE, calls |-> <<>>,
          value |-> [success |-> FALSE, error |-> ValidationError]]
    ELSE ScrapeParsed(mappings, url, urlparse(url), tlib, nlib)

(***************************************************************************)
(* ArticleSummarizer: _extract_claude_content, _clean_response and         *)
(* detect_language                                                         *)
(***************************************************************************)
\* A reply of the completion service: with has_text the first content block
\* carries text; without, the code falls back to str(response), here repr.
_extract_claude_content(response) ==
    IF response.has_text THEN response.text ELSE response.repr

\* re.search(r'text="([^"]+)"', s) from position from on: the group of the
\* leftmost match, found FALSE if there is none
RECURSIVE TextGroup(_, _)
TextGroup(s, from) ==
    LET i == Find(s, "text=\"", from)
        q == IF i = 0 THEN 0 ELSE Find(s, "\"", i + 6)
    IN IF i = 0 \/ q = 0 THEN [found |-> FALSE, group |-> ""]
       ELSE IF q > i + 6 THEN [found |-> TRUE, group |-> SubSeq(s, i + 6, q - 1)]
       ELSE TextGroup(s, i + 1)

\* the first step of _clean_response: the quoted text of a TextBlock wrapper
UnwrapMatch(summary, match) == IF match.found THEN match.group ELSE summary

Unwrap(summary) ==
    IF Contains(summary, "TextBlock") THEN UnwrapMatch(summary, TextGroup(summary, 1))
    ELSE summary

\* ftfy.fix_text on the characters of the model: line breaks become "\n" and
\* the HTML entities &quot; and &amp; are decoded (in a text without "<")
_fix_api_response_encoding(response_text) ==
    IF Contains(response_text, "<")
    THEN Replace(Replace(response_text, "\r\n", "\n"), "\r", "\n")
    ELSE Replace(Replace(Replace(Replace(response_text, "\r\n", "\n"), "\r", "\n"),
                         "&quot;", "\""), "&amp;", "&")

\* re.sub(r'\s+', ' ', s)
RECURSIVE CollapseWhitespace(_, _)
CollapseWhitespace(s, inRun) ==
    IF s = "" THEN ""
    ELSE IF IsSpace(Char(s, 1))
         THEN (IF inRun THEN "" ELSE " ") \o CollapseWhitespace(From(s, 2), TRUE)
         ELSE Char(s, 1) \o CollapseWhitespace(From(s, 2), FALSE)

RemoveArtifacts(summary) ==
    Replace(Replace(summary, "TextBlock(text=\"", ""), "\", type=\"text\")", "")

FlattenLineBreaks(summary) ==
    Replace(Replace(Replace(summary, "\r\n", " "), "\n", " "), "\r", " ")

_clean_response(summary) ==
    Strip(CollapseWhitespace(
        FlattenLineBreaks(RemoveArtifacts(_fix_api_response_encoding(Unwrap(summary)))),
        FALSE))

lang_map ==
    ("en" :> "English") @@ ("es" :> "Spanish") @@ ("fr" :> "French")
    @@ ("de" :> "German") @@ ("it" :> "Italian") @@ ("pt" :> "Portuguese")
    @@ ("nl" :> "Dutch") @@ ("pl" :> "Polish") @@ ("ru" :> "Russian")
    @@ ("zh" :> "Chinese") @@ ("ja" :> "Japanese") @@ ("ko" :> "Korean")
    @@ ("ar" :> "Arabic") @@ ("he" :> "Hebrew") @@ ("hi" :> "Hindi")
    @@ ("tr" :> "Turkish") @@ ("sv" :> "Swedish") @@ ("da" :> "Danish")
    @@ ("no" :> "Norwegian") @@ ("fi" :> "Finnish") @@ ("el" :> "Greek")
    @@ ("cs" :> "Czech") @@ ("hu" :> "Hungarian") @@ ("ro" :> "Romanian")
    @@ ("bg" :> "Bulgarian") @@ ("uk" :> "Ukrainian") @@ ("vi" :> "Vietnamese")
    @@ ("th" :> "Thai") @@ ("id" :> "Indonesian") @@ ("ms" :> "Malay")
    @@ ("fa" :> "Persian") @@ ("ur" :> "Urdu") @@ ("bn" :> "Bengali")
    @@ ("ta" :> "Tamil") @@ ("te" :> "Telugu") @@ ("ml" :> "Malayalam")
    @@ ("ca" :> "Catalan") @@ ("eu" :> "Basque") @@ ("gl" :> "Galician")
    @@ ("hr" :> "Croatian") @@ ("sr" :> "Serbian") @@ ("sk" :> "Slovak")
    @@ ("sl" :> "Slovenian") @@ ("lt" :> "Lithuanian") @@ ("lv" :> "Latvian")
    @@ ("et" :> "Estonian") @@ ("mk" :> "Macedonian") @@ ("sq" :> "Albanian")
    @@ ("hy" :> "Armenian") @@ ("ka" :> "Georgian") @@ ("az" :> "Azerbaijani")
    @@ ("kk" :> "Kazakh") @@ ("uz" :> "Uzbek") @@ ("tg" :> "Tajik")
    @@ ("ky" :> "Kyrgyz") @@ ("tt" :> "Tatar") @@ ("ba" :> "Bashkir")
    @@ ("cv" :> "Chuvash") @@ ("ce" :> "Chechen") @@ ("mn" :> "Mongolian")
    @@ ("ne" :> "Nepali") @@ ("si" :> "Sinhala") @@ ("km" :> "Khmer")
    @@ ("lo" :> "Lao") @@ ("my" :> "Burmese") @@ ("am" :> "Amharic")
    @@ ("ti" :> "Tigrinya") @@ ("yo" :> "Yoruba") @@ ("sw" :> "Swahili")
    @@ ("zu" :> "Zulu") @@ ("xh" :> "Xhosa") @@ ("af" :> "Afrikaans")
    @@ ("cy" :> "Welsh") @@ ("ga" :> "Irish") @@ ("gd" :> "Scottish Gaelic")
    @@ ("is" :> "Icelandic") @@ ("mt" :> "Maltese") @@ ("lb" :> "Luxembourgish")
    @@ ("tl" :> "Tagalog") @@ ("haw" :> "Hawaiian") @@ ("sm" :> "Samoan")
    @@ ("mg" :> "Malagasy") @@ ("la" :> "Latin")

\* the names the reply of the completion service is normalised to, in the
\* order of the elif chain, with the ASCII spellings the chain looks for
language_names ==
    << <<"English", {"english"}>>, <<"Spanish", {"spanish"}>>, <<"French", {"french"}>>,
       <<"German", {"german", "deutsch"}>>, <<"Italian", {"italian", "italiano"}>>,
       <<"Portuguese", {"portuguese"}>>, <<"Dutch", {"dutch", "nederlands"}>>,
       <<"Chinese", {"chinese"}>>, <<"Japanese", {"japanese"}>>, <<"Korean", {"korean"}>>,
       <<"Arabic", {"arabic"}>>, <<"Russian", {"russian"}>>,
       <<"Polish", {"polish", "polski"}>>, <<"Hebrew", {"hebrew"}>>, <<"Hindi", {"hindi"}>> >>

RECURSIVE NormaliseFrom(_, _, _)
NormaliseFrom(language, language_lower, k) ==
    IF k > Len(language_names) THEN language
    ELSE IF \E w \in language_names[k][2] : Contains(language_lower, w)
         THEN language_names[k][1]
         ELSE NormaliseFrom(language, language_lower, k + 1)

NormaliseLanguage(language) == NormaliseFrom(language, Lower(language), 1)

\* the dict of the fast-langdetect branch, lang_code the lowered code
FastInfo(lang_code, confidence) ==
    [language |-> IF lang_code \in DOMAIN lang_map THEN lang_map[lang_code]
                  ELSE Upper(lang_code),
     is_english |-> lang_code = "en",
     confidence |-> confidence,
     method |-> "fast-langdetect"]

\* the fast-langdetect stage: what it returned, or failed when the module is
\* not installed, fast_detect raised, or its result has no 'lang'
FastStage(available, fast) ==
    IF ~available THEN [tried |-> FALSE, ok |-> FALSE, value |-> [method |-> "none"]]
    ELSE IF fast.kind = "ok"
    THEN [tried |-> TRUE, ok |-> TRUE, value |-> FastInfo(Lower(fast.lang), fast.score)]
    ELSE [tried |-> TRUE, ok |-> FALSE, value |-> [method |-> "none"]]

ApiInfo(language) ==
    [language |-> language, is_english |-> Lower(language) = "english",
     method |-> "claude-api"]

DefaultInfo(error) ==
    [language |-> "English", is_english |-> TRUE, error |-> error, method |-> "default"]

\* mutant: the default is reported under the method of the completion stage
ApiStageWrongMethod(api) ==
    IF api.kind = "raise"
    THEN [stages |-> <<"claude-api", "default">>,
          value |-> [language |-> "English", is_english |-> TRUE, error |-> api.error,
                     method |-> "claude-api"]]
    ELSE [stages |-> <<"claude-api">>,
          value |-> ApiInfo(NormaliseLanguage(Strip(_clean_response(
                                _extract_claude_content(api)))))]

\* the completion-service stage and the static default behind it
ApiStage(api) ==
    IF api.kind = "raise"
    THEN [stages |-> <<"claude-api", "default">>, value |-> DefaultInfo(api.error)]
    ELSE [stages |-> <<"claude-api">>,
          value |-> ApiInfo(NormaliseLanguage(Strip(_clean_response(
                                _extract_claude_content(api)))))]

\* detect_language after the fast stage
AfterFastStage(fastStage, apiStage) ==
    IF fastStage.ok
    THEN [raised |-> FALSE, stages |-> <<"fast-langdetect">>, value |-> fastStage.value]
    ELSE [raised |-> FALSE,
          stages |-> (IF fastStage.tried THEN <<"fast-langdetect">> ELSE <<>>)
                     \o apiStage.stages,
          value |-> apiStage.value]

\* mutant: an exception of the completion service is not caught
detect_language_uncaught(available, article_text, fast, api) ==
    IF article_text = "" \/ (api.kind = "raise" /\ ~FastStage(available, fast).ok)
    THEN [raised |-> TRUE, stages |-> <<>>, value |-> [method |-> "none"]]
    ELSE AfterFastStage(FastStage(available, fast), ApiStage(api))

\* detect_language(article_text): ValueError for an empty text
detect_language(available, article_text, fast, api) ==
    IF article_text = ""
    THEN [raised |-> TRUE, stages |-> <<>>, value |-> [method |-> "none"]]
    ELSE AfterFastStage(FastStage(available, fast), ApiStage(api))

(***************************************************************************)
(* ArticleSummarizer: detect_article_type                                  *)
(***************************************************************************)
\* the labels in the order of the fallback loop
ArticleTypeLabels == <<"news", "op-ed", "feature", "interview">>

\* the for loop of the fallback: the first label of the list that occurs in
\* the reply, "" (None) when none does
RECURSIVE FirstLabelIn(_, _)
FirstLabelIn(response_lower, k) ==
    IF k > Len(ArticleTypeLabels) THEN ""
    ELSE IF Contains(response_lower, ArticleTypeLabels[k]) THEN ArticleTypeLabels[k]
    ELSE FirstLabelIn(response_lower, k + 1)

FallbackType(found) == IF found = "" THEN "news" ELSE found

\* mutant: a label anywhere in the reply wins over the label it starts with
DetectedTypeAnywhereFirst(response_lower) ==
    FallbackType(FirstLabelIn(response_lower, 1))

\* the if/elif chain over the lowered reply
DetectedType(response_lower) ==
    IF StartsWith(response_lower, "news") THEN "news"
    ELSE IF StartsWith(response_lower, "op-ed") THEN "op-ed"
    ELSE IF StartsWith(response_lower, "feature") THEN "feature"
    ELSE IF StartsWith(response_lower, "interview") THEN "interview"
    ELSE FallbackType(FirstLabelIn(response_lower, 1))

\* response_text[start+1:end] for the first "(" at start and the first ")"
\* after it at end; "" when there is no such pair
ExplanationBetween(response_text, start, end) ==
    IF start = 0 \/ end = 0 THEN "" ELSE SubSeq(response_text, start + 1, end - 1)

ExplanationFrom(response_text, start) ==
    ExplanationBetween(response_text, start,
                       IF start = 0 THEN 0 ELSE Find(response_text, ")", start))

Explanation(response_text) == ExplanationFrom(response_text, Find(response_text, "(", 1))

ExplanationOrDefault(explanation) ==
    IF explanation = "" THEN "Article type detected" ELSE explanation

\* the dict detect_article_type returns for the cleaned reply
TypeDetection(response_text) ==
    [type |-> DetectedType(Lower(response_text)),
     explanation |-> ExplanationOrDefault(Explanation(response_text)),
     raw_response |-> response_text]

NoDetection == [type |-> "", explanation |-> "", raw_response |-> ""]

\* mutant: a failure of the completion service is answered with the default
\* type instead of an error
detect_article_type_swallowed(article_text, api) ==
    IF article_text = ""
    THEN [raised |-> TRUE, error |-> "Article text is required for type detection",
          value |-> NoDetection]
    ELSE IF api.kind = "raise"
    THEN [raised |-> FALSE, error |-> "", value |-> TypeDetection("")]
    ELSE [raised |-> FALSE, error |-> "",
          value |-> TypeDetection(_clean_response(_extract_claude_content(api)))]

\* detect_article_type(article_text), the completion service answering api:
\* ValueError for an empty text, Exception when the service raised
detect_article_type(article_text, api) ==
    IF article_text = ""
    THEN [raised |-> TRUE, error |-> "Article text is required for type detection",
          value |-> NoDetection]
    ELSE IF api.kind = "raise"
    THEN [raised |-> TRUE, error |-> "Error detecting article type: " \o api.error,
          value |-> NoDetection]
    ELSE [raised |-> FALSE, error |-> "",
          value |-> TypeDetection(_clean_response(_extract_claude_content(api)))]

(***************************************************************************)
(* ArticleSummarizer: get_summary                                          *)
(***************************************************************************)
\* an optional argument that was given; None is the argument left out
Some(v) == [isNone |-> FALSE, value |-> v]

\* not x, for an optional string
Falsy(x) == x.isNone \/ x.value = ""

\* not n, for an optional integer
FalsyCount(n) == n.isNone \/ n.value = 0

\* an optional string as an f-string formats it
Str(x) == IF x.isNone THEN "None" ELSE x.value

SingleMentionContext(client_name) ==
    "\n\nIMPORTANT: The client '"
    \o client_name
    \o "' is mentioned once in this article. You must accurately reflect this "
    \o "single mention in the summary with appropriate context. If the mention"
    \o " is brief or peripheral, do not overemphasise it (especially not in th"
    \o "e first sentence). If '"
    \o client_name
    \o "' is central to the story, position it appropriately. Be accurate abou"
    \o "t HOW '"
    \o client_name
    \o "' is described or referenced in the article."

ModerateMentionContext(client_name, mention_count) ==
    "\n\nIMPORTANT: The client '"
    \o client_name
    \o "' is mentioned "
    \o ToString(mention_count)
    \o " times in this article. You must accurately reflect these mentions in "
    \o "the summary with appropriate weight and context. If the mentions are b"
    \o "rief or peripheral, do not overemphasise them. If '"
    \o client_name
    \o "' is central to the story, ensure this is clear in the summary. Be acc"
    \o "urate about HOW '"
    \o client_name
    \o "' is described or referenced, maintaining the article's perspective."

HighMentionContext(client_name, mention_count) ==
    "\n\nIMPORTANT: The client '"
    \o client_name
    \o "' is mentioned "
    \o ToString(mention_count)
    \o " times in this article, suggesting they are likely a significant eleme"
    \o "nt of the story. You must accurately reflect '"
    \o client_name
    \o "'s prominence in the summary while maintaining overall balance. If '"
    \o client_name
    \o "' is the main focus, this should be clear (potentially in the first se"
    \o "ntence). If they are one of several key elements, position them approp"
    \o "riately. Be precise about HOW '"
    \o client_name
    \o "' is described, what role they play, and maintain the article's tone a"
    \o "nd perspective."

\* mutant: the moderate wording is kept up to four mentions
_build_client_mention_context_shifted(client_name, mention_count) ==
    IF client_name = "" \/ mention_count = 0 THEN ""
    ELSE IF mention_count = 1 THEN SingleMentionContext(client_name)
    ELSE IF mention_count <= 4 THEN ModerateMentionContext(client_name, mention_count)
    ELSE HighMentionContext(client_name, mention_count)

_build_client_mention_context(client_name, mention_count) ==
    IF client_name = "" \/ mention_count = 0 THEN ""
    ELSE IF mention_count = 1 THEN SingleMentionContext(client_name)
    ELSE IF mention_count <= 3 THEN ModerateMentionContext(client_name, mention_count)
    ELSE HighMentionContext(client_name, mention_count)

\* client_context as get_summary computes it
ClientContext(client_name, client_mention_count) ==
    IF Falsy(client_name) \/ FalsyCount(client_mention_count) THEN ""
    ELSE _build_client_mention_context(client_name.value, client_mention_count.value)

InstructionText(specific_instructions) ==
    IF Falsy(specific_instructions) THEN ""
    ELSE
         " Pay special attention to the following aspects: "
    \o specific_instructions.value
    \o "."

BritishSpellingInstruction ==
    "Use British English spelling conventions (e.g., 'colour', 'realise', '"
    \o "centre', 'organisation') but preserve all other details exactly as the"
    \o "y appear in the original article, including currencies, locations, mea"
    \o "surements, and proper nouns. Do not convert currencies to pounds or ch"
    \o "ange any factual details."

TranslationInstruction(detected_language) ==
    "IMPORTANT: This article is written in "
    \o detected_language
    \o ". The summary MUST translate the content to English and use British En"
    \o "glish spelling conventions (e.g., 'colour', 'realise', 'centre', 'orga"
    \o "nisation') in your summary. However, preserve proper nouns, currencies"
    \o ", and specific terms exactly as they appear. Do not convert currencies"
    \o " or change any factual details, just translate the text to British Eng"
    \o "lish."

SpellingInstruction(language_info) ==
    IF language_info.is_english THEN BritishSpellingInstruction
    ELSE TranslationInstruction(language_info.language)

\* the user message of the role-extraction call
RolePrompt(article_text) ==
    "From this article, extract ONLY the author's role or credentials if me"
    \o "ntioned (like their job title, position, or expertise). Do NOT include"
    \o " the author's name in your response. If no role is mentioned, respond "
    \o "with 'NO_ROLE'. Don't include any other text in your response:\n\n"
    \o article_text

\* mutant: the sentinel is treated as a role
RoleIntroSentinelKept(author, author_role) ==
    IF author_role # ""
    THEN author \o ", " \o StripChars(Strip(Replace(author_role, author, "")), " ,")
    ELSE author

\* author_intro for the stripped reply author_role of the role-extraction call
RoleIntro(author, author_role) ==
    IF author_role # "" /\ author_role # "NO_ROLE"
    THEN author \o ", " \o StripChars(Strip(Replace(author_role, author, "")), " ,")
    ELSE author

\* mutant: a failed role-extraction call leaves the opening clause without
\* the author
AuthorIntroNoFallback(author, role_api) ==
    IF role_api.kind = "raise" THEN ""
    ELSE RoleIntro(author, Strip(_extract_claude_content(role_api)))

\* the try block of the op-ed branch: the role-extraction call answering
\* role_api, any exception giving the bare author name
AuthorIntro(author, role_api) ==
    IF role_api.kind = "raise" THEN author
    ELSE RoleIntro(author, Strip(_extract_claude_content(role_api)))

\* mutant: the prompt names one sentence less and another opening
NewsPromptOffByOne(sentence_count, spelling_instruction, instruction_text, client_context, publication, article_text) ==
    "Summarise this news article in "
    \o ToString(sentence_count - 1)
    \o " *short* sentences. "
    \o spelling_instruction
    \o " Be specific where applicable. Full sentences only, no lists."
    \o instruction_text
    \o client_context
    \o " You MUST begin with '"
    \o publication
    \o " says that'\n\nArticle: "
    \o article_text

NewsPrompt(sentence_count, spelling_instruction, instruction_text, client_context, publication, article_text) ==
    "Summarise this news article in "
    \o ToString(sentence_count)
    \o " *short* sentences. "
    \o spelling_instruction
    \o " Be specific where applicable. Full sentences only, no lists."
    \o instruction_text
    \o client_context
    \o " You MUST begin with '"
    \o publication
    \o " reports that'\n\nArticle: "
    \o article_text

InterviewPrompt(sentence_count, spelling_instruction, instruction_text, client_context, publication, author, article_text) ==
    "Summarise this interview article in "
    \o ToString(sentence_count)
    \o " *concise* SHORT sentences that flow. "
    \o spelling_instruction
    \o " Do NOT use 'we' in the summary. Be specific where applicable."
    \o instruction_text
    \o client_context
    \o " For your first sentence: Begin with '"
    \o publication
    \o " carries an interview with "
    \o author
    \o "' and include a brief overview of the main topic discussed. For remain"
    \o "ing "
    \o ToString(sentence_count - 1)
    \o " sentences, begin these sentences like  '[author last name] argues/hig"
    \o "hlights/describes/discusses/notes/cites that'.\n\nArticle: "
    \o article_text

OpEdPrompt(sentence_count, spelling_instruction, instruction_text, client_context, publication, author_intro, article_text) ==
    "Summarise this op-ed article in "
    \o ToString(sentence_count)
    \o " *concise* SHORT sentences that flow. "
    \o spelling_instruction
    \o " Do NOT use 'we' in the summary. Be specific where applicable."
    \o instruction_text
    \o client_context
    \o " For your first sentence: Begin with '"
    \o publication
    \o " carries an op-ed by "
    \o author_intro
    \o "' and include a brief overview of their main argument. For remaining "
    \o ToString(sentence_count - 1)
    \o " sentences, begin these sentences like  '[author last name] argues/hig"
    \o "hlights/describes/discusses/notes/cites that'.\n\nArticle: "
    \o article_text

FeaturePrompt(sentence_count, spelling_instruction, instruction_text, client_context, publication, article_text) ==
    "Summarise this feature article in "
    \o ToString(sentence_count)
    \o " *concise* quite SHORT sentences that flow. "
    \o spelling_instruction
    \o " Where applicable begin sentences like 'The article (also) highlights/"
    \o "cites/notes/discusses/examines/suggests'. Do NOT use 'we' in the summa"
    \o "ry. Be specific where applicable and make sure to convey the broad poi"
    \o "nts of the piece in the summary."
    \o instruction_text
    \o client_context
    \o " You MUST begin with '"
    \o publication
    \o " carries a feature'\n\nArticle: "
    \o article_text

\* the if/elif chain that selects the prompt
TypedPrompt(req, spelling_instruction, instruction_text, client_context, role_api) ==
    IF req.article_type = "news"
    THEN NewsPrompt(req.sentence_count, spelling_instruction, instruction_text,
                    client_context, req.publication, req.article_text)
    ELSE IF req.article_type = "interview"
    THEN InterviewPrompt(req.sentence_count, spelling_instruction, instruction_text,
                         client_context, req.publication, Str(req.author), req.article_text)
    ELSE IF req.article_type = "op-ed"
    THEN OpEdPrompt(req.sentence_count, spelling_instruction, instruction_text,
                    client_context, req.publication,
                    AuthorIntro(req.author.value, role_api), req.article_text)
    ELSE FeaturePrompt(req.sentence_count, spelling_instruction, instruction_text,
                       client_context, req.publication, req.article_text)

UserPrompt(req, language_info, role_api) ==
    TypedPrompt(req, SpellingInstruction(language_info),
                InstructionText(req.specific_instructions),
                ClientContext(req.client_name, req.client_mention_count), role_api)

\* the calls of messages.create get_summary makes after language detection
SummaryCalls(article_type) ==
    IF article_type = "op-ed" THEN <<"role-extraction", "summary">> ELSE <<"summary">>

\* mutant: sentence counts 1 and 7 pass the validation
SummaryValidationWide(req) ==
    IF req.article_text = "" \/ req.publication = ""
    THEN "Article text and publication name are required"
    ELSE IF req.article_type = "op-ed" /\ Falsy(req.author)
    THEN "Author name is required for op-ed articles"
    ELSE IF ~(1 <= req.sentence_count /\ req.sentence_count <= 7)
    THEN "Sentence count must be between 2 and 6"
    ELSE ""

\* the message of the ValueError the validation raises, "" when it passes
SummaryValidation(req) ==
    IF req.article_text = "" \/ req.publication = ""
    THEN "Article text and publication name are required"
    ELSE IF req.article_type = "op-ed" /\ Falsy(req.author)
    THEN "Author name is required for op-ed articles"
    ELSE IF ~(2 <= req.sentence_count /\ req.sentence_count <= 6)
    THEN "Sentence count must be between 2 and 6"
    ELSE ""

SummaryOutcome(raised, kind, error, value, stages, calls, prompt) ==
    [raised |-> raised, kind |-> kind, error |-> error, value |-> value,
     lang_stages |-> stages, calls |-> calls, prompt |-> prompt]

\* mutant: a failed main call is made a second time
MainCallRetried(stages, calls, prompt, main_api) ==
    IF main_api.kind = "raise"
    THEN SummaryOutcome(TRUE, "Exception",
                        "Error getting summary from Claude: " \o main_api.error, "",
                        stages, calls \o <<"summary">>, prompt)
    ELSE SummaryOutcome(FALSE, "", "", _clean_response(_extract_claude_content(main_api)),
                        stages, calls, prompt)

\* the main call of messages.create with the user message prompt
MainCall(stages, calls, prompt, main_api) ==
    IF main_api.kind = "raise"
    THEN SummaryOutcome(TRUE, "Exception",
                        "Error getting summary from Claude: " \o main_api.error, "",
                        stages, calls, prompt)
    ELSE SummaryOutcome(FALSE, "", "", _clean_response(_extract_claude_content(main_api)),
                        stages, calls, prompt)

\* get_summary after the validation, language the result of detect_language
Summarise(req, language, role_api, main_api) ==
    MainCall(language.stages, SummaryCalls(req.article_type),
             UserPrompt(req, language.value, role_api), main_api)

\* mutant: the language is detected before the arguments are validated
get_summary_detects_first(available, req, fast, lang_api, role_api, main_api) ==
    IF SummaryValidation(req) # ""
    THEN SummaryOutcome(TRUE, "ValueError", SummaryValidation(req), "",
                        detect_language(available, req.article_text, fast, lang_api).stages,
                        <<>>, "")
    ELSE Summarise(req, detect_language(available, req.article_text, fast, lang_api),
                   role_api, main_api)

\* get_summary(**req): the detector answering fast, the completion service
\* lang_api to the language question, role_api to the role extraction and
\* main_api to the summary request
get_summary(available, req, fast, lang_api, role_api, main_api) ==
    IF SummaryValidation(req) # ""
    THEN SummaryOutcome(TRUE, "ValueError", SummaryValidation(req), "", <<>>, <<>>, "")
    ELSE Summarise(req, detect_language(available, req.article_text, fast, lang_api),
                   role_api, main_api)

(***************************************************************************)
(* app.py: count_client_mentions, handle_type_detection and handle_submit  *)
(***************************************************************************)
\* \w of a regular expression, for the characters of the model
IsWordChar(c) == c # "" /\ (IsAlpha(c) \/ IndexIn(c, DigitChars) # 0 \/ c = "_")

\* \b before position i of text (i in 1..Len(text)+1)
WordBoundary(text, i) ==
    IsWordChar(IF i > 1 THEN Char(text, i - 1) ELSE "")
        # IsWordChar(IF i <= Len(text) THEN Char(text, i) ELSE "")

\* the possessive endings the group (?:'?s)? tries, in the order it tries them
PossessiveEndings == <<"'s", "s", "">>

\* text continues at position j with ending and a \b follows it
EndingMatches(text, j, ending) ==
    /\ j + Len(ending) - 1 <= Len(text)
    /\ SubSeq(text, j, j + Len(ending) - 1) = ending
    /\ WordBoundary(text, j + Len(ending))

\* the position after the match of (?:'?s)?\b at position j, 0 if none
RECURSIVE EndingEnd(_, _, _)
EndingEnd(text, j, k) ==
    IF k > Len(PossessiveEndings) THEN 0
    ELSE IF EndingMatches(text, j, PossessiveEndings[k]) THEN j + Len(PossessiveEndings[k])
    ELSE EndingEnd(text, j, k + 1)

\* the position after the match of \bNAME(?:'?s)?\b at position i, 0 if none;
\* lowered is the lowered text, name the lowered name (re.IGNORECASE)
MatchEnd(lowered, name, i) ==
    IF /\ i <= Len(lowered) + 1
       /\ WordBoundary(lowered, i)
       /\ i + Len(name) - 1 <= Len(lowered)
       /\ SubSeq(lowered, i, i + Len(name) - 1) = name
    THEN EndingEnd(lowered, i + Len(name), 1)
    ELSE 0

\* len(re.findall(...)): the matches from position i on, left to right and
\* not overlapping; end is the position after the match at i
RECURSIVE CountMatches(_, _, _, _)
CountMatches(lowered, name, i, end) ==
    IF i > Len(lowered) + 1 THEN 0
    ELSE IF end = 0
    THEN CountMatches(lowered, name, i + 1, MatchEnd(lowered, name, i + 1))
    ELSE IF end = i
    THEN 1 + CountMatches(lowered, name, i + 1, MatchEnd(lowered, name, i + 1))
    ELSE 1 + CountMatches(lowered, name, end, MatchEnd(lowered, name, end))

CountAll(lowered, name) == CountMatches(lowered, name, 1, MatchEnd(lowered, name, 1))

\* mutant: the pattern is applied without re.IGNORECASE
count_client_mentions_cased(article_text, client_name) ==
    IF article_text = "" \/ client_name = "" THEN 0
    ELSE CountAll(article_text, Strip(client_name))

\* count_client_mentions(article_text, client_name)
count_client_mentions(article_text, client_name) ==
    IF article_text = "" \/ client_name = "" THEN 0
    ELSE CountAll(Lower(article_text), Lower(Strip(client_name)))

validate_client_mention(article_text, client_name) ==
    count_client_mentions(article_text, client_name)

\* the message handle_type_detection shows for the exception text error (the
\* pictograph each of the first three messages starts with is left out)
TypeDetectionErrorMessage(error) ==
    IF Contains(error, "529") \/ Contains(Lower(error), "overloaded")
    THEN "Anthropic's servers are currently overloaded. Please wait a moment and try again."
    ELSE IF Contains(Lower(error), "rate_limit") \/ Contains(error, "429")
    THEN "Rate limit exceeded. Please wait a minute before trying again."
    ELSE IF Contains(error, "500") \/ Contains(error, "502") \/ Contains(error, "503")
    THEN "Anthropic is experiencing server issues. Please try again in a few moments."
    ELSE "Error detecting article type: " \o error

\* the message handle_submit shows for the exception text error
SubmitErrorMessage(error) ==
    IF Contains(error, "529") \/ Contains(Lower(error), "overloaded")
    THEN "Anthropic's servers are currently overloaded. Please wait a moment and try again."
    ELSE IF Contains(Lower(error), "rate_limit") \/ Contains(error, "429")
    THEN "Rate limit exceeded. Please wait a minute before trying again."
    ELSE IF Contains(error, "500") \/ Contains(error, "502") \/ Contains(error, "503")
    THEN "Anthropic is experiencing server issues. Please try again in a few moments."
    ELSE IF Contains(Lower(error), "network") \/ Contains(Lower(error), "connection")
    THEN "Network connection error. Please check your connection and try again."
    ELSE "An error occurred: " \o error

\* the entries of st.session_state a handler writes: s is the record of
\* their values, s.calls the calls the running handler has made
Early(s, message) == [s EXCEPT !.error_message = Some(message)]

\* handle_type_detection after its try block: the completion service
\* answered api and detect_article_type ended with r
AfterDetection(s, api, r) ==
    IF r.raised
    THEN [s EXCEPT !.error_message = Some(TypeDetectionErrorMessage(r.error)),
                   !.calls = <<[service |-> api, result |-> r]>>]
    ELSE [s EXCEPT !.detected_type = Some(r.value.type),
                   !.detection_explanation = Some(r.value.explanation),
                   !.calls = <<[service |-> api, result |-> r]>>]

\* handle_type_detection(), the completion service answering api
handle_type_detection(has_summarizer, s, article_text, api) ==
    IF ~has_summarizer THEN Early(s, "Please enter your API key first")
    ELSE IF Strip(article_text) = ""
    THEN Early(s, "Please paste your article text before analyzing")
    ELSE AfterDetection([s EXCEPT !.error_message = None], api,
                        detect_article_type(article_text, api))

\* the keyword arguments handle_submit passes to get_summary
Request(form, article_type, client_name, client_mention_count) ==
    [article_text |-> form.article_text, publication |-> form.publication,
     article_type |-> article_type, author |-> form.author,
     specific_instructions |-> form.specific_instructions,
     sentence_count |-> form.sentence_count,
     client_name |-> client_name, client_mention_count |-> client_mention_count]

\* mutant: a failed call of get_summary clears the summary shown
AfterSummaryCleared(s, req, r) ==
    IF r.raised
    THEN [s EXCEPT !.error_message = Some(SubmitErrorMessage(r.error)),
                   !.summary = None,
                   !.calls = <<[request |-> req, raised |-> r.raised,
                                completions |-> r.calls]>>]
    ELSE [s EXCEPT !.summary = Some(r.value),
                   !.calls = <<[request |-> req, raised |-> r.raised,
                                completions |-> r.calls]>>]

\* handle_submit after get_summary(**req) ended with r
AfterSummary(s, req, r) ==
    IF r.raised
    THEN [s EXCEPT !.error_message = Some(SubmitErrorMessage(r.error)),
                   !.calls = <<[request |-> req, raised |-> r.raised,
                                completions |-> r.calls]>>]
    ELSE [s EXCEPT !.summary = Some(r.value),
                   !.calls = <<[request |-> req, raised |-> r.raised,
                                completions |-> r.calls]>>]

\* handle_submit from "Validate inputs" on
SubmitValidated(available, s, req, outs) ==
    IF req.publication = "" \/ req.article_text = ""
    THEN Early(s, "Please provide both publication name and article text")
    ELSE IF req.article_type \in {"op-ed", "interview"} /\ Falsy(req.author)
    THEN Early(s, "Please provide the "
                  \o (IF req.article_type = "op-ed" THEN "author" ELSE "interviewee")
                  \o " name")
    ELSE AfterSummary([s EXCEPT !.error_message = None], req,
                      get_summary(available, req, outs.fast, outs.lang_api,
                                  outs.role_api, outs.main_api))

\* get_unique_key(): the key of the widgets and of the keyed entries
get_unique_key(s) == s.form_reset_counter

\* the entries client_mention_count_{key} and client_validation_done_{key}
\* as handle_submit stores them: s.client_validation maps a key to them
StoreValidation(s, count) ==
    [s EXCEPT !.client_validation =
                  (get_unique_key(s) :> [count |-> count, done |-> TRUE]) @@ @]

\* mutant: a client that is not mentioned does not stop the submission
SubmitCountedUnchecked(available, s, form, article_type, client_name, count, outs) ==
    SubmitValidated(available,
                    StoreValidation(s, count),
                    Request(form, article_type, Some(client_name), Some(count)), outs)

\* handle_submit with client tracking, count the mentions of client_name
SubmitCounted(available, s, form, article_type, client_name, count, outs) ==
    IF count = 0
    THEN Early(s, "'" \o client_name \o "' was not found in the article text. "
                  \o "Please check the client name and try again.")
    ELSE SubmitValidated(available,
                         StoreValidation(s, count),
                         Request(form, article_type, Some(client_name), Some(count)), outs)

\* handle_submit once the article type is determined
SubmitTyped(available, s, form, article_type, outs) ==
    IF ~form.use_client_tracking
    THEN SubmitValidated(available, s, Request(form, article_type, None, None), outs)
    ELSE IF Strip(form.client_name) = ""
    THEN SubmitValidated(available, s, Request(form, article_type, Some(""), None), outs)
    ELSE SubmitCounted(available, s, form, article_type, Strip(form.client_name),
                       validate_client_mention(form.article_text, Strip(form.client_name)),
                       outs)

\* handle_submit(), the services answering outs
handle_submit(has_summarizer, available, s, form, outs) ==
    IF ~has_summarizer THEN Early(s, "Please enter your API key first")
    ELSE IF ~form.use_ai_analysis THEN SubmitTyped(available, s, form, form.article_type, outs)
    ELSE IF Falsy(s.detected_type)
    THEN Early(s, "Please analyze the article type first using the "
                  \o "'Analyze Article Type' button")
    ELSE SubmitTyped(available, s, form, s.detected_type.value, outs)

\* mutant: the counter, and with it the key, stays as it was
reset_form_same_key(s) ==
    [s EXCEPT !.summary = None,
              !.error_message = None,
              !.detected_type = None,
              !.detection_explanation = None,
              !.client_mention_count = None,
              !.client_validation_done = FALSE,
              !.scraped_content = None,
              !.detected_language = None,
              !.clipboard_feedback = None]

\* reset_form()
reset_form(s) ==
    [s EXCEPT !.form_reset_counter = @ + 1,
              !.summary = None,
              !.error_message = None,
              !.detected_type = None,
              !.detection_explanation = None,
              !.client_mention_count = None,
              !.client_validation_done = FALSE,
              !.scraped_content = None,
              !.detected_language = None,
              !.clipboard_feedback = None]

\* what main() shows under "Client Name": the validation result stored
\* under the current key, None when there is none to show
ShownValidation(s, f) ==
    IF /\ f.use_client_tracking
       /\ get_unique_key(s) \in DOMAIN s.client_validation
       /\ s.client_validation[get_unique_key(s)].done
       /\ s.client_validation[get_unique_key(s)].count # 0
    THEN Some(s.client_validation[get_unique_key(s)].count)
    ELSE None

\* detect_article_language after its try block, r what detect_language ended with
LanguageStored(s, r) ==
    IF r.raised
    THEN [s EXCEPT !.detected_language =
                       Some([language |-> "Unknown", is_english |-> TRUE,
                             error |-> "Article text is required for language detection"])]
    ELSE [s EXCEPT !.detected_language = Some(r.value)]

\* detect_article_language(article_text), the detector answering fast and
\* the completion service api
detect_article_language(has_summarizer, available, s, article_text, fast, api) ==
    IF ~has_summarizer \/ article_text = "" THEN s
    ELSE LanguageStored(s, detect_language(available, article_text, fast, api))

\* the widgets handle_url_scraping pre-fills from a successful result
FilledForm(f, result) ==
    [f EXCEPT !.publication = IF result.publication # "" THEN result.publication ELSE @,
              !.article_text = result.text,
              !.author = IF result.author # "" THEN Some(result.author) ELSE @]

\* the publication widget after a failed extraction that named the publication
PublicationFilled(f, result) ==
    IF "publication" \in DOMAIN result /\ result.publication # ""
    THEN [f EXCEPT !.publication = result.publication]
    ELSE f

\* a handler that also writes widgets ends with the entries and the form
Ended(s, f) == [session |-> s, form |-> f]

\* handle_url_scraping after scrape_article(url) ended with r
AfterScrape(has_summarizer, available, s, f, r, fast, api) ==
    IF r.raised
    THEN Ended([s EXCEPT !.error_message = Some("Error scraping URL: Invalid IPv6 URL"),
                         !.calls = <<r>>], f)
    ELSE IF r.value.success
    THEN Ended(detect_article_language(
                   has_summarizer, available,
                   [s EXCEPT !.scraped_content =
                                 Some([text |-> r.value.text,
                                       publication |-> r.value.publication,
                                       author |-> r.value.author,
                                       title |-> r.value.title]),
                             !.calls = <<r>>],
                   r.value.text, fast, api),
               FilledForm(f, r.value))
    ELSE Ended([s EXCEPT !.error_message = Some(r.value.error), !.calls = <<r>>],
               PublicationFilled(f, r.value))

\* handle_url_scraping(): a new scraper over the mapping resource, the
\* libraries answering tlib and nlib
handle_url_scraping(has_summarizer, available, resource, s, f, tlib, nlib, fast, api) ==
    IF Strip(f.article_url) = "" THEN Ended(Early(s, "Please enter a URL"), f)
    ELSE AfterScrape(has_summarizer, available, s, f,
                     scrape_article(_load_publication_mappings(resource),
                                    Strip(f.article_url), tlib, nlib),
                     fast, api)

(***************************************************************************)
(* The inputs: URLs, and what the two libraries answer                     *)
(***************************************************************************)
MaxPrefixDepth == 2

ShortOfMin == Repeat("a", MIN_NEWSPAPER_TEXT - 1)

TrafTexts == {" ", "Short text.", ShortOfMin \o "a"}

\* sitename is the publication name trafilatura's metadata reports
TrafLib(fetch, extract, text, metadata, title, author) ==
    [fetch |-> fetch, extract |-> extract, text |-> text, metadata |-> metadata,
     title |-> title, author |-> author,
     sitename |-> IF title = "" THEN "" ELSE "Site Name From Metadata"]

TrafOutcomes ==
    { TrafLib("raise", "ok", "", "ok", "", ""), TrafLib("none", "ok", "", "ok", "", ""),
      TrafLib("ok", "raise", "", "ok", "", ""), TrafLib("ok", "ok", "", "ok", "", "") }
    \cup { TrafLib("ok", "ok", t, "raise", "", "") : t \in TrafTexts }
    \cup { TrafLib("ok", "ok", t, "ok", m[1], m[2]) :
             t \in TrafTexts, m \in {<<"", "">>, <<"A Title", "Ann Author">>} }

NewsTexts ==
    { "", "   ", "Short text.", ShortOfMin, ShortOfMin \o "a", ShortOfMin \o "aa",
      " " \o ShortOfMin, ShortOfMin \o "\n", " " \o ShortOfMin \o "a" }

NewsLib(parse, text, title, authors) ==
    [parse |-> parse, text |-> text, title |-> title, authors |-> authors]

NewsOutcomes ==
    { NewsLib("raise", "", "", <<>>) }
    \cup { NewsLib("ok", t, m[1], m[2]) :
             t \in NewsTexts, m \in {<<"", <<>> >>, <<"A Title", <<"Ann Author", "Bob Writer">> >>} }

\* the secondary library was not consulted
NotAsked == NewsLib("unused", "", "", <<>>)

ScrapeUrls ==
    { "", "wsj.com/articles/x", "ftp://wsj.com/articles/x", "HTTP://www.bbc.co.uk/news",
      "http:/theguardian.com", "httpx://foo-bar.com",
      "https://www.wsj.com/articles/x", "http://theguardian.com/uk", "https://foo-bar.com/",
      "https://news.sky.com/story", "https://m.ft.com/content", "http://www.thetimes.co.uk",
      "https://wsj.company.example.org/a", "https://www.bbc.co.uk/news", "https://",
      "https://[::1]:8080/x", "http://[::1/x", "https://example.org]/x" }

BaseHosts ==
    DOMAIN TableA \cup DOMAIN TableB
    \cup { "bbc.co.uk", "thetimes.co.uk", "foo-bar.com", "my_site.org", "nytimes.com",
           "NYTimes.com", "news.com", "m.com", "localhost", "indie-news_site.net",
           "sub.foo-bar.com", "[::1]", "[::1", "" }

RECURSIVE HostsUpTo(_)
HostsUpTo(n) ==
    IF n = 0 THEN BaseHosts
    ELSE LET H == HostsUpTo(n - 1)
         IN H \cup { prefixes_to_remove[k] \o h : k \in DOMAIN prefixes_to_remove, h \in H }

PubUrls ==
    { "https://" \o h \o "/news/a-b" : h \in HostsUpTo(MaxPrefixDepth) }
    \cup { "http://" \o h : h \in BaseHosts }
    \cup { "", "foo-bar.com/x", "ftp://theguardian.com", "http:/wsj.com", "not a url" }

ArticleTexts ==
    { "", "The council met on Monday.", "Le conseil s'est reuni lundi.\nIl a vote.",
      "El consejo se reunio el lunes." }

\* what fast_detect answers: it raises, returns a dict without 'lang', or a
\* language code and a score (in percent)
FastOut(kind, lang, score) == [kind |-> kind, lang |-> lang, score |-> score]

FastOutcomes ==
    { FastOut("raise", "", 0), FastOut("malformed", "", 0) }
    \cup { FastOut("ok", l, c) : l \in {"en", "EN", "fr", "xx"}, c \in {42, 99} }

NoFast == FastOut("unused", "", 0)

\* what messages.create answers: it raises with a message, or returns a
\* response
ApiOut(kind, has_text, text, repr, error) ==
    [kind |-> kind, has_text |-> has_text, text |-> text, repr |-> repr, error |-> error]

ApiOutcomes ==
    { ApiOut("raise", FALSE, "", "", e) : e \in {"Error code: 529 overloaded", "Connection error."} }
    \cup { ApiOut("ok", TRUE, t, "", "") :
              t \in { "English", "english.", "The language is Spanish", " Deutsch\n",
                      "Klingon", "", "TextBlock(text=\"French\", type=\"text\")",
                      "Anglo-Norman French and English" } }
    \cup { ApiOut("ok", FALSE, "", "Message(content=[TextBlock(text=\"Italiano\", type=\"text\")])", "") }

NoApi == ApiOut("unused", FALSE, "", "", "")

(***************************************************************************)
(* The inputs of the summarizer and of the form                            *)
(***************************************************************************)
MaxFragments == 3

\* pieces of replies: the wrapper literals and parts of them, texts with and
\* without line breaks, whitespace, a quote and an HTML entity
ReplyFragments ==
    { "TextBlock(text=\"", "\",", " type=\"text\")", "\")", "Hello world",
      "Hello\r\n  world", " ", "\n", "\"", "&amp;" }

RECURSIVE FragmentsUpTo(_)
FragmentsUpTo(n) ==
    IF n = 0 THEN {""}
    ELSE FragmentsUpTo(n - 1)
         \cup { f \o s : f \in ReplyFragments, s \in FragmentsUpTo(n - 1) }

CleanInputs == FragmentsUpTo(MaxFragments)

TypeReplyLeads == {"", " ", "Type: ", "Not a feature: ", "TextBlock(text=\""}

TypeReplyLabels ==
    {"news", "NEWS", "Op-Ed", "feature", "Interview", "opinion", "op ed", "newsletter"}

TypeReplyTails ==
    { "", " (reports an announcement)", " (not an interview) or news", ") (",
      "\", type=\"text\")" }

TypeApiOutcomes ==
    { ApiOut("raise", FALSE, "", "", e) : e \in {"Error code: 529 overloaded", "Connection error."} }
    \cup { ApiOut("ok", TRUE, lead \o label \o tail, "", "") :
             lead \in TypeReplyLeads, label \in TypeReplyLabels, tail \in TypeReplyTails }

TypeTexts == {"", "The council met on Monday."}

MaxSentenceCount == 7

Authors == {None, Some(""), Some("Ann Author")}

Clients == { <<None, None>>, <<Some("Acme"), Some(2)>> }

MaxMentionCount == 5

\* requests that differ in the client name and the mention count only
ClientRequests ==
    { [article_text |-> "Acme met the council.", publication |-> "The Guardian",
       article_type |-> ty, author |-> Some("Ann Author"),
       specific_instructions |-> None, sentence_count |-> 3,
       client_name |-> name, client_mention_count |-> count] :
        ty \in {"news", "op-ed", "feature", "interview"},
        name \in {None, Some(""), Some("Acme")},
        count \in {None} \cup { Some(k) : k \in 0..MaxMentionCount } }

SummaryRequests ==
    { [article_text |-> t, publication |-> p, article_type |-> ty, author |-> a,
       specific_instructions |-> i, sentence_count |-> n,
       client_name |-> c[1], client_mention_count |-> c[2]] :
        t \in {"", "Acme met the council."}, p \in {"", "The Guardian"},
        ty \in {"news", "op-ed", "feature", "interview"}, a \in Authors,
        i \in {None, Some("the budget")}, n \in 0..MaxSentenceCount, c \in Clients }
    \cup ClientRequests

SummaryFastOutcomes == { FastOut("ok", "en", 99), FastOut("raise", "", 0) }

SummaryLangOutcomes == { ApiOut("ok", TRUE, "French", "", "") }

RoleOutcomes ==
    { ApiOut("raise", FALSE, "", "", "Connection error.") }
    \cup { ApiOut("ok", TRUE, t, "", "") :
             t \in { "NO_ROLE", " NO_ROLE\n", "NO_ROLE.", "", "Professor of Economics",
                     "Ann Author, Professor of Economics", "Ann Author" } }

MainOutcomes ==
    { ApiOut("raise", FALSE, "", "", "Error code: 529 overloaded"),
      ApiOut("ok", TRUE, "The Guardian reports that the council met.\nIt voted.", "", "") }

MaxMentionFragments == 3

\* pieces of article texts around a client name: the name in two casings,
\* the possessive endings, another word character and separators
MentionFragments == {"Acme", "acme", "'s", "s", "'", " ", "x"}

RECURSIVE MentionTextsUpTo(_)
MentionTextsUpTo(n) ==
    IF n = 0 THEN {""}
    ELSE MentionTextsUpTo(n - 1)
         \cup { f \o t : f \in MentionFragments, t \in MentionTextsUpTo(n - 1) }

MentionExample == "Acme makes widgets. Acme's factory is large."

MentionTexts == MentionTextsUpTo(MaxMentionFragments) \cup {MentionExample}

MentionNames == {"", "Acme", " acme ", "me", "Acme's"}

\* what the widgets of the form can hold
FormChoices ==
    [publication |-> {"", "The Guardian"},
     article_text |-> {"", "Acme met the council. Acme's chief spoke."},
     article_type |-> {"news", "op-ed", "interview"},
     author |-> {None, Some("Ann Author")},
     specific_instructions |-> {None},
     sentence_count |-> {3},
     use_ai_analysis |-> BOOLEAN,
     use_client_tracking |-> BOOLEAN,
     client_name |-> {"", "Acme", "Zeta"},
     article_url |-> {""}]

\* the form of a new session: its widgets at their defaults
BlankForm ==
    [publication |-> "", article_text |-> "", article_type |-> "news", author |-> None,
     specific_instructions |-> None, sentence_count |-> 3, use_ai_analysis |-> FALSE,
     use_client_tracking |-> FALSE, client_name |-> "", article_url |-> ""]

\* a form filled in for a news article, without the optional features
CompleteForm ==
    [publication |-> "The Guardian",
     article_text |-> "Acme met the council. Acme's chief spoke.",
     article_type |-> "news", author |-> None, specific_instructions |-> None,
     sentence_count |-> 3, use_ai_analysis |-> FALSE, use_client_tracking |-> FALSE,
     client_name |-> "", article_url |-> ""]

MaxFormEdits == 2

\* the widgets in which the form f differs from the complete one
Edits(f) == {field \in DOMAIN f : f[field] # CompleteForm[field]}

\* the forms the user submits: the complete form with a few widgets changed
Forms ==
    { f \in [publication : FormChoices.publication, article_text : FormChoices.article_text,
             article_type : FormChoices.article_type, author : FormChoices.author,
             specific_instructions : FormChoices.specific_instructions,
             sentence_count : FormChoices.sentence_count,
             use_ai_analysis : FormChoices.use_ai_analysis,
             use_client_tracking : FormChoices.use_client_tracking,
             client_name : FormChoices.client_name,
             article_url : FormChoices.article_url] :
        Cardinality(Edits(f)) <= MaxFormEdits }

\* what the services answer during one call of get_summary
Outs(fast, lang_api, role_api, main_api) ==
    [fast |-> fast, lang_api |-> lang_api, role_api |-> role_api, main_api |-> main_api]

NoOuts == Outs(NoFast, NoApi, NoApi, NoApi)

DetectionOutcomes ==
    { ApiOut("raise", FALSE, "", "", "Connection error."),
      ApiOut("ok", TRUE, "news (reports a council meeting)", "", ""),
      ApiOut("ok", TRUE, "Interview", "", "") }

SubmitOutcomes ==
    { Outs(FastOut("ok", "en", 99), NoApi, ApiOut("ok", TRUE, "NO_ROLE", "", ""), m) :
        m \in { ApiOut("raise", FALSE, "", "", "Error code: 529 overloaded"),
                ApiOut("ok", TRUE, "The Guardian reports that the council met.", "", "") } }

\* what the language detector answers when the article text changes
FormLanguageOutcomes == { FastOut("ok", "en", 99) }

\* the texts of the two articles of a session: one typed, one scraped
TypedText == "Acme met the council. Acme's chief spoke."

ScrapedText == "Zeta opened a plant."

SessionUrl == "https://www.wsj.com/articles/x"

\* the forms of a session with the scraper: the URL entered, one of the two
\* texts in the text area, AI analysis and client tracking on or off
SessionForms ==
    { [CompleteForm EXCEPT !.article_url = SessionUrl, !.article_text = text,
                           !.use_ai_analysis = ai, !.use_client_tracking = tracking,
                           !.client_name = "Acme"] :
        text \in {TypedText, ScrapedText}, ai \in BOOLEAN, tracking \in BOOLEAN }

\* what the two libraries answer to a click on "Fetch Article": the
\* primary method extracts the article, or both methods fail
SessionScrapeOutcomes ==
    { <<TrafLib("ok", "ok", ScrapedText, "ok", "A Title", "Ann Author"), NotAsked>>,
      <<TrafLib("none", "ok", "", "ok", "", ""), NewsLib("raise", "", "", <<>>)>> }

\* what the completion service answers to a click on "Analyze Article Type"
SessionDetectionOutcomes ==
    { ApiOut("raise", FALSE, "", "", "Connection error."),
      ApiOut("ok", TRUE, "news (reports a council meeting)", "", "") }

MaxResets == 1

(***************************************************************************)
(* State                                                                   *)
(***************************************************************************)
VARIABLES
    mapping_resource,       \* publication_mappings.json as __init__ found it
    publication_mappings,   \* ArticleScraper.publication_mappings
    pub_pc,                 \* extract_publication_name: "idle", "returned", "raised"
    pub_url,                \* its argument
    pub_result,             \* the value it returned
    scrape_pc,              \* scrape_article: "idle", "returned", "raised"
    scrape_url,             \* its argument
    traf_lib,               \* what trafilatura answered during the call
    news_lib,               \* what newspaper answered, NotAsked if it was not called
    extractor_calls,        \* the extraction methods invoked by the call, in order
    scrape_result,          \* the dict it returned
    FAST_LANGDETECT_AVAILABLE,  \* whether fast_langdetect could be imported
    lang_pc,                \* detect_language: "idle", "returned", "raised"
    article_text,           \* its argument
    fast_out,               \* what fast_detect answered, NoFast if it was not called
    api_out,                \* what the completion service answered, NoApi if not asked
    lang_stages,            \* the stages the call went through, in order
    language_info,          \* the dict it returned
    clean_pc,               \* _clean_response: "idle", "once", "twice" (applied to its result)
    clean_input,            \* the string first given to it
    clean_previous,         \* the argument of its last application
    clean_output,           \* the result of its last application
    type_pc,                \* detect_article_type: "idle", "returned", "raised"
    type_text,              \* its argument
    type_api,               \* what the completion service answered, NoApi if not asked
    type_result,            \* the dict it returned, or the error it raised
    summary_pc,             \* get_summary: "idle", "returned", "raised"
    summary_request,        \* its arguments
    summary_outs,           \* what the services it asked answered
    summary_result,         \* the summary it returned or the error it raised, its calls
    has_summarizer,         \* "summarizer" in st.session_state
    form,                   \* the widgets of the form (keys with the unique key)
    session_state,          \* the entries of st.session_state the handlers write
    last_handler,           \* the handler that ran last, "none" after another action
    handler_calls,          \* the calls that run made, with what they ended in
    detected_for,           \* the article text the stored detected_type was detected for
    mention_pc,             \* count_client_mentions: "idle", "returned"
    mention_text,           \* its argument article_text
    mention_name,           \* its argument client_name
    mention_count           \* the count it returned

scraperVars == <<mapping_resource, publication_mappings>>

pubVars == <<pub_pc, pub_url, pub_result>>

scrapeVars == <<scrape_pc, scrape_url, traf_lib, news_lib, extractor_calls, scrape_result>>

langVars == <<lang_pc, article_text, fast_out, api_out, lang_stages, language_info>>

cleanVars == <<clean_pc, clean_input, clean_previous, clean_output>>

typeVars == <<type_pc, type_text, type_api, type_result>>

summaryVars == <<summary_pc, summary_request, summary_outs, summary_result>>

appVars == <<has_summarizer, form, session_state, last_handler, handler_calls, detected_for>>

mentionVars == <<mention_pc, mention_text, mention_name, mention_count>>

summarizerVars == <<cleanVars, typeVars, summaryVars, appVars, mentionVars>>

vars == <<scraperVars, pubVars, scrapeVars, FAST_LANGDETECT_AVAILABLE, langVars,
          summarizerVars>>

NoTraf == TrafLib("unused", "ok", "", "ok", "", "")

\* ArticleScraper.__init__
NewScraperInit ==
    \E resource \in MappingResources :
        /\ mapping_resource = resource
        /\ publication_mappings = _load_publication_mappings(resource)

PubIdle == pub_pc = "idle" /\ pub_url = "" /\ pub_result = ""

ScrapeIdle ==
    /\ scrape_pc = "idle"
    /\ scrape_url = ""
    /\ traf_lib = NoTraf
    /\ news_lib = NotAsked
    /\ extractor_calls = <<>>
    /\ scrape_result = [success |-> FALSE]

LangIdle ==
    /\ lang_pc = "idle"
    /\ article_text = ""
    /\ fast_out = NoFast
    /\ api_out = NoApi
    /\ lang_stages = <<>>
    /\ language_info = [method |-> "none"]

\* the summarizer and the session at rest
CleanIdle ==
    clean_pc = "idle" /\ clean_input = "" /\ clean_previous = "" /\ clean_output = ""

NoTypeResult == [raised |-> FALSE, error |-> "", value |-> NoDetection]

TypeIdle ==
    type_pc = "idle" /\ type_text = "" /\ type_api = NoApi /\ type_result = NoTypeResult

NoRequest == [article_type |-> "none"]

NoSummary == SummaryOutcome(FALSE, "", "", "", <<>>, <<>>, "")

SummaryIdle ==
    /\ summary_pc = "idle"
    /\ summary_request = NoRequest
    /\ summary_outs = NoOuts
    /\ summary_result = NoSummary

\* st.session_state of a new session, as main() initialises it
NewSession ==
    [form_reset_counter |-> 0, summary |-> None, error_message |-> None,
     detected_type |-> None, detection_explanation |-> None, scraped_content |-> None,
     detected_language |-> None, clipboard_feedback |-> None,
     client_mention_count |-> None, client_validation_done |-> FALSE,
     client_validation |-> <<>>]

MentionIdle ==
    mention_pc = "idle" /\ mention_text = "" /\ mention_name = "" /\ mention_count = 0

AppIdle ==
    /\ has_summarizer = FALSE
    /\ form = BlankForm
    /\ session_state = NewSession
    /\ last_handler = "none"
    /\ handler_calls = <<>>
    /\ detected_for = None

\* The scraper constructed over any state of the mapping resource; the
\* summarizer module imported with fast_langdetect installed.
Init ==
    /\ NewScraperInit /\ PubIdle /\ ScrapeIdle
    /\ FAST_LANGDETECT_AVAILABLE = TRUE
    /\ LangIdle
    /\ CleanIdle /\ TypeIdle /\ SummaryIdle /\ AppIdle /\ MentionIdle

\* A summarizer constructed in a module that could import fast_langdetect
SummarizerInit ==
    /\ mapping_resource = [state |-> "missing", table |-> NoMappings]
    /\ publication_mappings = _load_publication_mappings(mapping_resource)
    /\ PubIdle /\ ScrapeIdle
    /\ FAST_LANGDETECT_AVAILABLE = TRUE
    /\ LangIdle
    /\ CleanIdle /\ TypeIdle /\ SummaryIdle /\ AppIdle /\ MentionIdle

\* The summarizer module imported with or without fast_langdetect; the
\* scraper constructed without a mapping resource.
LanguageInit ==
    /\ mapping_resource = [state |-> "missing", table |-> NoMappings]
    /\ publication_mappings = _load_publication_mappings(mapping_resource)
    /\ PubIdle /\ ScrapeIdle
    /\ FAST_LANGDETECT_AVAILABLE \in BOOLEAN
    /\ LangIdle
    /\ CleanIdle /\ TypeIdle /\ SummaryIdle /\ AppIdle /\ MentionIdle

\* a new ArticleScraper(), as handle_url_scraping makes one per click
NewScraper(resource) ==
    /\ pub_pc = "idle" /\ scrape_pc = "idle"
    /\ mapping_resource' = resource
    /\ publication_mappings' = _load_publication_mappings(resource)
    /\ UNCHANGED <<pubVars, scrapeVars, FAST_LANGDETECT_AVAILABLE, langVars,
                   summarizerVars>>

\* a call of extract_publication_name(url) that ended with r
PubCall(url, r) ==
    /\ pub_pc = "idle"
    /\ pub_url' = url
    /\ pub_pc' = IF r.raised THEN "raised" ELSE "returned"
    /\ pub_result' = r.value
    /\ UNCHANGED <<scraperVars, scrapeVars, FAST_LANGDETECT_AVAILABLE, langVars,
                   summarizerVars>>

\* extract_publication_name(url)
ExtractPublicationName(url) ==
    PubCall(url, extract_publication_name(publication_mappings, url))

Asked(calls, name) == \E i \in DOMAIN calls : calls[i] = name

\* a call of scrape_article(url) that ended with r
ScrapeCall(url, tlib, nlib, r) ==
    /\ scrape_pc = "idle"
    /\ scrape_url' = url
    /\ scrape_pc' = IF r.raised THEN "raised" ELSE "returned"
    /\ extractor_calls' = r.calls
    /\ traf_lib' = IF Asked(r.calls, "trafilatura") THEN tlib ELSE NoTraf
    /\ news_lib' = IF Asked(r.calls, "newspaper4k") THEN nlib ELSE NotAsked
    /\ scrape_result' = r.value
    /\ UNCHANGED <<scraperVars, pubVars, FAST_LANGDETECT_AVAILABLE, langVars,
                   summarizerVars>>

\* scrape_article(url), the libraries answering tlib and nlib
ScrapeArticle(url, tlib, nlib) ==
    ScrapeCall(url, tlib, nlib, scrape_article(publication_mappings, url, tlib, nlib))

\* the caller has taken the result (or the exception) of the last call
PubReturn ==
    /\ pub_pc # "idle"
    /\ pub_pc' = "idle" /\ pub_url' = "" /\ pub_result' = ""
    /\ UNCHANGED <<scraperVars, scrapeVars, FAST_LANGDETECT_AVAILABLE, langVars,
                   summarizerVars>>

ScrapeReturn ==
    /\ scrape_pc # "idle"
    /\ scrape_pc' = "idle"
    /\ scrape_url' = ""
    /\ traf_lib' = NoTraf
    /\ news_lib' = NotAsked
    /\ extractor_calls' = <<>>
    /\ scrape_result' = [success |-> FALSE]
    /\ UNCHANGED <<scraperVars, pubVars, FAST_LANGDETECT_AVAILABLE, langVars,
                   summarizerVars>>

Tried(stages, name) == \E i \in DOMAIN stages : stages[i] = name

\* a call of detect_language(text) that ended with r
LangCall(text, fast, api, r) ==
    /\ lang_pc = "idle"
    /\ article_text' = text
    /\ lang_pc' = IF r.raised THEN "raised" ELSE "returned"
    /\ lang_stages' = r.stages
    /\ fast_out' = IF Tried(r.stages, "fast-langdetect") THEN fast ELSE NoFast
    /\ api_out' = IF Tried(r.stages, "claude-api") THEN api ELSE NoApi
    /\ language_info' = r.value
    /\ UNCHANGED <<scraperVars, pubVars, scrapeVars, FAST_LANGDETECT_AVAILABLE,
                   summarizerVars>>

\* detect_language(text), the detector answering fast and the service api
DetectLanguage(text, fast, api) ==
    LangCall(text, fast, api, detect_language(FAST_LANGDETECT_AVAILABLE, text, fast, api))

LangReturn ==
    /\ lang_pc # "idle"
    /\ lang_pc' = "idle"
    /\ article_text' = ""
    /\ fast_out' = NoFast
    /\ api_out' = NoApi
    /\ lang_stages' = <<>>
    /\ language_info' = [method |-> "none"]
    /\ UNCHANGED <<scraperVars, pubVars, scrapeVars, FAST_LANGDETECT_AVAILABLE,
                   summarizerVars>>

LanguageNext ==
    \/ \E text \in ArticleTexts, fast \in FastOutcomes, api \in ApiOutcomes :
          DetectLanguage(text, fast, api)
    \/ LangReturn

PublicationNext ==
    \/ \E resource \in MappingResources : NewScraper(resource)
    \/ \E url \in PubUrls : ExtractPublicationName(url)
    \/ PubReturn

ScraperNext ==
    \/ \E resource \in MappingResources : NewScraper(resource)
    \/ \E url \in ScrapeUrls, tlib \in TrafOutcomes, nlib \in NewsOutcomes :
          ScrapeArticle(url, tlib, nlib)
    \/ ScrapeReturn

PublicationSpec == Init /\ [][PublicationNext]_vars

ScraperSpec == Init /\ [][ScraperNext]_vars

LanguageSpec == LanguageInit /\ [][LanguageNext]_vars

\* a call of _clean_response(x)
CleanResponse(x) ==
    /\ clean_pc = "idle"
    /\ clean_pc' = "once"
    /\ clean_input' = x
    /\ clean_previous' = x
    /\ clean_output' = _clean_response(x)
    /\ UNCHANGED <<scraperVars, pubVars, scrapeVars, mentionVars,
                   FAST_LANGDETECT_AVAILABLE, langVars,
                   typeVars, summaryVars, appVars>>

\* _clean_response applied to its own result
CleanAgain ==
    /\ clean_pc = "once"
    /\ clean_pc' = "twice"
    /\ clean_previous' = clean_output
    /\ clean_output' = _clean_response(clean_output)
    /\ UNCHANGED <<clean_input, scraperVars, pubVars, scrapeVars, mentionVars,
                   FAST_LANGDETECT_AVAILABLE,
                   langVars, typeVars, summaryVars, appVars>>

CleanReturn ==
    /\ clean_pc = "twice"
    /\ clean_pc' = "idle" /\ clean_input' = "" /\ clean_previous' = "" /\ clean_output' = ""
    /\ UNCHANGED <<scraperVars, pubVars, scrapeVars, mentionVars,
                   FAST_LANGDETECT_AVAILABLE, langVars,
                   typeVars, summaryVars, appVars>>

\* a call of detect_article_type(text) that ended with r
TypeCall(text, api, r) ==
    /\ type_pc = "idle"
    /\ type_pc' = IF r.raised THEN "raised" ELSE "returned"
    /\ type_text' = text
    /\ type_api' = IF text = "" THEN NoApi ELSE api
    /\ type_result' = r
    /\ UNCHANGED <<scraperVars, pubVars, scrapeVars, mentionVars,
                   FAST_LANGDETECT_AVAILABLE, langVars,
                   cleanVars, summaryVars, appVars>>

\* detect_article_type(text), the completion service answering api
DetectArticleType(text, api) == TypeCall(text, api, detect_article_type(text, api))

TypeReturn ==
    /\ type_pc # "idle"
    /\ type_pc' = "idle" /\ type_text' = "" /\ type_api' = NoApi
    /\ type_result' = NoTypeResult
    /\ UNCHANGED <<scraperVars, pubVars, scrapeVars, mentionVars,
                   FAST_LANGDETECT_AVAILABLE, langVars,
                   cleanVars, summaryVars, appVars>>

\* the answers of the services that were asked during a call of get_summary
Consulted(outs, r) ==
    Outs(IF Tried(r.lang_stages, "fast-langdetect") THEN outs.fast ELSE NoFast,
         IF Tried(r.lang_stages, "claude-api") THEN outs.lang_api ELSE NoApi,
         IF Tried(r.calls, "role-extraction") THEN outs.role_api ELSE NoApi,
         IF Tried(r.calls, "summary") THEN outs.main_api ELSE NoApi)

\* a call of get_summary(**req) that ended with r
SummaryCall(req, outs, r) ==
    /\ summary_pc = "idle"
    /\ summary_pc' = IF r.raised THEN "raised" ELSE "returned"
    /\ summary_request' = req
    /\ summary_outs' = Consulted(outs, r)
    /\ summary_result' = r
    /\ UNCHANGED <<scraperVars, pubVars, scrapeVars, mentionVars,
                   FAST_LANGDETECT_AVAILABLE, langVars,
                   cleanVars, typeVars, appVars>>

\* get_summary(**req), the services answering outs
GetSummary(req, outs) ==
    SummaryCall(req, outs,
                get_summary(FAST_LANGDETECT_AVAILABLE, req, outs.fast, outs.lang_api,
                            outs.role_api, outs.main_api))

SummaryReturn ==
    /\ summary_pc # "idle"
    /\ summary_pc' = "idle"
    /\ summary_request' = NoRequest
    /\ summary_outs' = NoOuts
    /\ summary_result' = NoSummary
    /\ UNCHANGED <<scraperVars, pubVars, scrapeVars, mentionVars,
                   FAST_LANGDETECT_AVAILABLE, langVars,
                   cleanVars, typeVars, appVars>>

\* the entries a handler reads and writes, with the log of its calls
Running(state) == [calls |-> <<>>] @@ state

Stored(s) == [entry \in DOMAIN s \ {"calls"} |-> s[entry]]

\* initialize_summarizer(api_key) with a key the service accepts
InitializeSummarizer ==
    /\ has_summarizer = FALSE
    /\ has_summarizer' = TRUE
    /\ last_handler' = "none" /\ handler_calls' = <<>>
    /\ UNCHANGED <<form, session_state, detected_for>>
    /\ UNCHANGED <<scraperVars, pubVars, scrapeVars, mentionVars,
                   FAST_LANGDETECT_AVAILABLE, langVars,
                   cleanVars, typeVars, summaryVars>>

\* the user changes widgets of the form to those of f; a change of the
\* article text runs the on_change callback of the text area
EditForm(f, fast) ==
    /\ form # f
    /\ form' = f
    /\ session_state' =
          IF f.article_text = form.article_text THEN session_state
          ELSE detect_article_language(has_summarizer, FAST_LANGDETECT_AVAILABLE,
                                       session_state, f.article_text, fast, NoApi)
    /\ last_handler' = "none" /\ handler_calls' = <<>>
    /\ UNCHANGED <<has_summarizer, detected_for>>
    /\ UNCHANGED <<scraperVars, pubVars, scrapeVars, mentionVars,
                   FAST_LANGDETECT_AVAILABLE, langVars,
                   cleanVars, typeVars, summaryVars>>

\* a run of a handler that ended with the entries and the call log of s,
\* the widgets as in f, the last detection made for the text d
HandlerRun(name, s, f, d) ==
    /\ last_handler' = name
    /\ handler_calls' = s.calls
    /\ session_state' = Stored(s)
    /\ form' = f
    /\ detected_for' = d
    /\ UNCHANGED has_summarizer
    /\ UNCHANGED <<scraperVars, pubVars, scrapeVars, mentionVars,
                   FAST_LANGDETECT_AVAILABLE, langVars,
                   cleanVars, typeVars, summaryVars>>

\* handle_type_detection ended with s: the text a detection was made for
DetectedFor(s) ==
    IF s.calls # <<>> /\ ~s.calls[1].result.raised THEN Some(form.article_text)
    ELSE detected_for

TypeDetectionRun(s) == HandlerRun("handle_type_detection", s, form, DetectedFor(s))

\* a click on "Analyze Article Type", the completion service answering api
HandleTypeDetection(api) ==
    TypeDetectionRun(handle_type_detection(has_summarizer, Running(session_state),
                                           form.article_text, api))

\* a click on the submit button, the services answering outs
HandleSubmit(outs) ==
    HandlerRun("handle_submit",
               handle_submit(has_summarizer, FAST_LANGDETECT_AVAILABLE,
                             Running(session_state), form, outs),
               form, detected_for)

UrlScrapingRun(ended) ==
    HandlerRun("handle_url_scraping", ended.session, ended.form, detected_for)

\* a click on "Fetch Article", the libraries answering tlib and nlib; the
\* button is shown once the API key is valid
HandleUrlScraping(tlib, nlib, fast) ==
    /\ has_summarizer
    /\ UrlScrapingRun(handle_url_scraping(has_summarizer, FAST_LANGDETECT_AVAILABLE,
                                          mapping_resource, Running(session_state), form,
                                          tlib, nlib, fast, NoApi))

\* a click on "Clear" or "New Article": reset_form runs and the widgets of
\* the new key are at their defaults
ResetForm ==
    /\ has_summarizer
    /\ session_state.form_reset_counter < MaxResets
    /\ HandlerRun("reset_form", reset_form(Running(session_state)), BlankForm, None)

CleanNext ==
    \/ \E x \in CleanInputs : CleanResponse(x)
    \/ CleanAgain
    \/ CleanReturn

TypeNext ==
    \/ \E text \in TypeTexts, api \in TypeApiOutcomes : DetectArticleType(text, api)
    \/ TypeReturn

SummaryNext ==
    \/ \E req \in SummaryRequests, fast \in SummaryFastOutcomes,
          lang_api \in SummaryLangOutcomes, role_api \in RoleOutcomes,
          main_api \in MainOutcomes :
          GetSummary(req, Outs(fast, lang_api, role_api, main_api))
    \/ SummaryReturn

AppNext ==
    \/ InitializeSummarizer
    \/ \E f \in Forms, fast \in FormLanguageOutcomes : EditForm(f, fast)
    \/ \E api \in DetectionOutcomes : HandleTypeDetection(api)
    \/ \E outs \in SubmitOutcomes : HandleSubmit(outs)

\* count_client_mentions(text, name)
CountClientMentions(text, name) ==
    /\ mention_pc = "idle"
    /\ mention_pc' = "returned"
    /\ mention_text' = text
    /\ mention_name' = name
    /\ mention_count' = count_client_mentions(text, name)
    /\ UNCHANGED <<scraperVars, pubVars, scrapeVars, FAST_LANGDETECT_AVAILABLE, langVars,
                   cleanVars, typeVars, summaryVars, appVars>>

MentionReturn ==
    /\ mention_pc # "idle"
    /\ mention_pc' = "idle"
    /\ mention_text' = ""
    /\ mention_name' = ""
    /\ mention_count' = 0
    /\ UNCHANGED <<scraperVars, pubVars, scrapeVars, FAST_LANGDETECT_AVAILABLE, langVars,
                   cleanVars, typeVars, summaryVars, appVars>>

MentionNext ==
    \/ \E text \in MentionTexts, name \in MentionNames : CountClientMentions(text, name)
    \/ MentionReturn

MentionSpec == SummarizerInit /\ [][MentionNext]_vars

CleanSpec == SummarizerInit /\ [][CleanNext]_vars

TypeSpec == SummarizerInit /\ [][TypeNext]_vars

SummarySpec == SummarizerInit /\ [][SummaryNext]_vars

AppSpec == SummarizerInit /\ [][AppNext]_vars

\* a session in which the user also fetches articles and resets the form
SessionNext ==
    \/ InitializeSummarizer
    \/ \E f \in SessionForms, fast \in FormLanguageOutcomes : EditForm(f, fast)
    \/ \E api \in SessionDetectionOutcomes : HandleTypeDetection(api)
    \/ \E outs \in SubmitOutcomes : HandleSubmit(outs)
    \/ \E libs \in SessionScrapeOutcomes, fast \in FormLanguageOutcomes :
          HandleUrlScraping(libs[1], libs[2], fast)
    \/ ResetForm

SessionSpec == SummarizerInit /\ [][SessionNext]_vars

(***************************************************************************)
(* Properties of scrape_article (ScraperSpec)                              *)
(***************************************************************************)
ScrapeHost == urlparse(scrape_url).netloc

\* the answer of trafilatura from which scrape_with_trafilatura builds a dict
PrimaryProducedText(lib) ==
    lib.fetch = "ok" /\ lib.extract = "ok" /\ lib.text # "" /\ lib.metadata = "ok"

HttpUrl(url) == StartsWith(url, "http://") \/ StartsWith(url, "https://")

HostIsPaywalled(host) ==
    \E paywall \in paywall_domains : Contains(Replace(host, "www.", ""), paywall)

\* C1: a call of scrape_article with an empty or non-http(s) string returns
\* success=false with the validation message and invokes no extraction method.
C1_NonHttpRejected ==
    (scrape_pc # "idle" /\ ~HttpUrl(scrape_url)) =>
        /\ scrape_pc = "returned"
        /\ scrape_result = [success |-> FALSE, error |-> ValidationError]
        /\ extractor_calls = <<>>
        /\ traf_lib = NoTraf /\ news_lib = NotAsked

C1_Witness ==
    /\ scrape_pc = "returned"
    /\ scrape_url = "ftp://wsj.com/articles/x"
    /\ scrape_result.success = FALSE
    /\ extractor_calls = <<>>

\* C2: for every URL string scrape_article returns a value with a success
\* field and never raises to its caller.
C2_NeverRaises ==
    scrape_pc # "idle" => (scrape_pc = "returned" /\ "success" \in DOMAIN scrape_result)

\* C3: in one call the primary method is invoked at most once and first, the
\* secondary at most once, and the secondary only when the primary produced
\* no text (returned nothing, empty text, or raised).
C3_FallbackOrder ==
    scrape_pc # "idle" =>
        /\ extractor_calls \in {<<>>, <<"trafilatura">>, <<"trafilatura", "newspaper4k">>}
        /\ Asked(extractor_calls, "newspaper4k") => ~PrimaryProducedText(traf_lib)
        /\ (scrape_pc = "returned" /\ HttpUrl(scrape_url) /\ ~PrimaryProducedText(traf_lib))
              => extractor_calls = <<"trafilatura", "newspaper4k">>

C3_Witness ==
    /\ scrape_pc = "returned"
    /\ extractor_calls = <<"trafilatura", "newspaper4k">>
    /\ traf_lib.extract = "raise"
    /\ scrape_result.success

PrimaryEmptyText(lib) == lib.fetch = "ok" /\ lib.extract = "ok" /\ lib.text = ""

\* C4 as stated: when the primary yields empty text, a secondary text of at
\* least 100 characters gives success with method newspaper4k, and a shorter
\* one counts as a failure of the secondary.
C4_Original ==
    (scrape_pc = "returned" /\ PrimaryEmptyText(traf_lib) /\ news_lib.parse = "ok") =>
        IF Len(news_lib.text) >= MIN_NEWSPAPER_TEXT
        THEN scrape_result.success /\ scrape_result.method = "newspaper4k"
        ELSE ~scrape_result.success

\* C4 amended: when the primary yields empty text, the outcome is decided by
\* the length of the secondary text with leading and trailing whitespace
\* stripped: at least 100 gives success with method newspaper4k and that
\* text, fewer counts as a failure of the secondary.
C4_StrippedLength ==
    (scrape_pc = "returned" /\ PrimaryEmptyText(traf_lib) /\ news_lib.parse = "ok") =>
        IF Len(Strip(news_lib.text)) >= MIN_NEWSPAPER_TEXT
        THEN /\ scrape_result.success
             /\ scrape_result.method = "newspaper4k"
             /\ scrape_result.text = news_lib.text
        ELSE ~scrape_result.success

C4_Witness ==
    /\ scrape_pc = "returned"
    /\ PrimaryEmptyText(traf_lib)
    /\ Len(news_lib.text) = MIN_NEWSPAPER_TEXT
    /\ Len(Strip(news_lib.text)) = MIN_NEWSPAPER_TEXT - 1
    /\ ~scrape_result.success

SecondaryFailed(lib) ==
    lib.parse = "raise" \/ (lib.parse = "ok" /\ Len(Strip(lib.text)) < MIN_NEWSPAPER_TEXT)

\* C5: when both methods fail for an http(s) URL, the result is success=false
\* with publication = extract_publication_name(url) and an error message in
\* the paywall wording exactly when the host with "www." removed contains an
\* entry of the paywall-domain list, in the generic wording otherwise.
C5_BothFailed ==
    (scrape_pc = "returned" /\ HttpUrl(scrape_url)
        /\ ~PrimaryProducedText(traf_lib) /\ SecondaryFailed(news_lib)) =>
        scrape_result =
            [success |-> FALSE,
             error |-> IF HostIsPaywalled(ScrapeHost) THEN PaywallError ELSE GenericError,
             publication |-> extract_publication_name(publication_mappings, scrape_url).value]

C5_Witness ==
    /\ scrape_pc = "returned"
    /\ scrape_url = "https://m.ft.com/content"
    /\ news_lib.parse = "raise"
    /\ scrape_result.error = PaywallError
    /\ scrape_result.publication = "Financial Times"

\* C6: on every successful result publication = extract_publication_name(url)
\* whatever the extractor reported, method names the extractor whose text is
\* returned (trafilatura whenever it produced text), and paywall_warning is
\* true exactly when the host with "www." removed contains an entry of the
\* paywall-domain list.
C6_SuccessFields ==
    (scrape_pc = "returned" /\ scrape_result.success) =>
        /\ scrape_result.publication =
              extract_publication_name(publication_mappings, scrape_url).value
        /\ scrape_result.method =
              IF PrimaryProducedText(traf_lib) THEN "trafilatura" ELSE "newspaper4k"
        /\ scrape_result.text =
              IF PrimaryProducedText(traf_lib) THEN traf_lib.text ELSE news_lib.text
        /\ scrape_result.paywall_warning = HostIsPaywalled(ScrapeHost)

C6_Witness ==
    /\ scrape_pc = "returned"
    /\ scrape_url = "https://www.wsj.com/articles/x"
    /\ traf_lib.sitename = "Site Name From Metadata"
    /\ scrape_result.success
    /\ scrape_result.method = "trafilatura"
    /\ scrape_result.publication = "The Wall Street Journal"
    /\ scrape_result.paywall_warning

(***************************************************************************)
(* Properties of extract_publication_name (PublicationSpec)                *)
(***************************************************************************)
PubHost == urlparse(pub_url).netloc

\* C7: extract_publication_name never raises and returns a string, the empty
\* string when the URL cannot be parsed; when the mapping resource could not
\* be loaded the mapping is empty and the name comes from the hardcoded table
\* or the title-case fallback.
C7_NeverRaises ==
    pub_pc # "idle" =>
        /\ pub_pc = "returned"
        /\ pub_result \in STRING
        /\ urlparse(pub_url).raised => pub_result = ""
        /\ mapping_resource.state # "present" =>
              /\ publication_mappings = NoMappings
              /\ ~urlparse(pub_url).raised =>
                    pub_result = AfterPrefixLoop(PrefixLoop(NoMappings, PubHost, 1))

C7_Witness ==
    /\ pub_pc = "returned"
    /\ mapping_resource.state = "unreadable"
    /\ pub_url = "http://[::1"
    /\ pub_result = ""

IsKey(d) == d \in DOMAIN publication_mappings

\* host and d differ only by a leading "www."
WwwVariant(host, d) == host = "www." \o d \/ d = "www." \o host

Labels(host) == Split(host, ".")

\* a host of two non-empty labels
TwoLabel(host) ==
    Len(Labels(host)) = 2 /\ Labels(host)[1] # "" /\ Labels(host)[2] # ""

Unmapped(host) ==
    ~IsKey(host) /\ ~IsKey(Replace(host, "www.", "")) /\ ~IsKey("www." \o host)

TitleOfFirstLabel(host) == Title(Replace(Replace(Labels(host)[1], "-", " "), "_", " "))

HasKnownPrefix(host) ==
    \E k \in DOMAIN prefixes_to_remove : StartsWith(host, prefixes_to_remove[k])

MappedNameReturned ==
    \A d \in DOMAIN publication_mappings :
        (PubHost = d \/ WwwVariant(PubHost, d)) => pub_result = publication_mappings[d]

\* C8 as stated: a host that is a mapped domain, or differs from one by a
\* leading "www.", gives the mapped name; an unmapped two-label host whose
\* first label is not in the hardcoded table gives that label title-cased.
C8_Original ==
    pub_pc = "returned" =>
        /\ MappedNameReturned
        /\ (Unmapped(PubHost) /\ TwoLabel(PubHost)
              /\ Lower(Labels(PubHost)[1]) \notin DOMAIN legacy_mappings)
              => pub_result = TitleOfFirstLabel(PubHost)

\* C8 amended: as stated, for the unmapped two-label hosts that do not begin
\* with one of the prefixes www., edition., amp., m., mobile., news.
C8_MappedOrTitleCased ==
    pub_pc = "returned" =>
        /\ MappedNameReturned
        /\ (Unmapped(PubHost) /\ TwoLabel(PubHost) /\ ~HasKnownPrefix(PubHost)
              /\ Lower(Labels(PubHost)[1]) \notin DOMAIN legacy_mappings)
              => pub_result = TitleOfFirstLabel(PubHost)

C8_Witness ==
    /\ pub_pc = "returned"
    /\ publication_mappings = TableA
    /\ pub_url = "https://foo-bar.com/news/a-b"
    /\ pub_result = "Foo Bar"

(***************************************************************************)
(* Properties of detect_language (LanguageSpec)                            *)
(***************************************************************************)
IsLanguageInfo(info) ==
    /\ {"language", "is_english", "method"} \subseteq DOMAIN info
    /\ info.language \in STRING
    /\ info.is_english \in BOOLEAN
    /\ info.method \in {"fast-langdetect", "claude-api", "default"}

\* C9 as stated: for every article text, the empty one included, and every
\* failure of the detector or of the completion service, detect_language
\* returns a LanguageInfo and does not raise.
C9_Original == lang_pc # "idle" => (lang_pc = "returned" /\ IsLanguageInfo(language_info))

\* C9 amended: for every non-empty article text and every failure of the
\* detector or of the completion service, detect_language returns a
\* LanguageInfo and does not raise.
C9_NonEmptyNeverRaises ==
    (lang_pc # "idle" /\ article_text # "") =>
        (lang_pc = "returned" /\ IsLanguageInfo(language_info))

C9_Witness ==
    /\ lang_pc = "returned"
    /\ fast_out.kind = "raise"
    /\ api_out.kind = "raise"
    /\ language_info.language = "English"

LastStage == lang_stages[Len(lang_stages)]

\* C10: the stages run in the order fast detector, completion service,
\* static default, each at most once; the completion service is asked only
\* when the fast detector is unavailable or failed, the default is returned
\* only when the completion service failed too, and method names the stage
\* that produced the result.
C10_StageOrder ==
    lang_pc = "returned" =>
        /\ lang_stages \in
              { <<"fast-langdetect">>, <<"fast-langdetect", "claude-api">>,
                <<"fast-langdetect", "claude-api", "default">>,
                <<"claude-api">>, <<"claude-api", "default">> }
        /\ Tried(lang_stages, "fast-langdetect") = FAST_LANGDETECT_AVAILABLE
        /\ Tried(lang_stages, "claude-api") =
              (~FAST_LANGDETECT_AVAILABLE \/ fast_out.kind # "ok")
        /\ Tried(lang_stages, "default") = (api_out.kind = "raise")
        /\ language_info.method = LastStage
        /\ language_info.method = "default" =>
              language_info = [language |-> "English", is_english |-> TRUE,
                               method |-> "default", error |-> api_out.error]

C10_Witness ==
    /\ lang_pc = "returned"
    /\ lang_stages = <<"fast-langdetect", "claude-api", "default">>
    /\ fast_out.kind = "malformed"
    /\ language_info.method = "default"
    /\ language_info.error = "Connection error."

(***************************************************************************)
(* Properties of detect_article_type and handle_type_detection (AppSpec,   *)
(* TypeSpec)                                                               *)
(***************************************************************************)
\* the step was a run of handle_type_detection in which the completion
\* service failed
DetectionServiceFailed ==
    /\ last_handler' = "handle_type_detection"
    /\ Len(handler_calls') = 1
    /\ handler_calls'[1].service.kind = "raise"

\* C11: when the completion service fails during classification,
\* detect_article_type raises to handle_type_detection, which sets a
\* non-empty error_message and leaves detected_type and
\* detection_explanation as they were.
C11_FailureSurfaced ==
    [][DetectionServiceFailed =>
          /\ handler_calls'[1].result.raised
          /\ handler_calls'[1].result.error # ""
          /\ ~session_state'.error_message.isNone
          /\ session_state'.error_message.value # ""
          /\ session_state'.detected_type = session_state.detected_type
          /\ session_state'.detection_explanation = session_state.detection_explanation]_vars

C11_Witness ==
    /\ last_handler = "handle_type_detection"
    /\ Len(handler_calls) = 1
    /\ handler_calls[1].service.kind = "raise"
    /\ handler_calls[1].result.raised
    /\ session_state.error_message
          = Some("Error detecting article type: Error detecting article type: Connection error.")
    /\ session_state.detected_type = Some("interview")

TypeLabels == {"news", "op-ed", "feature", "interview"}

\* the labels the reply starts with, and the labels that occur in it
LabelsAtStart(reply) == {label \in TypeLabels : StartsWith(reply, label)}

LabelsIn(reply) == {label \in TypeLabels : Contains(reply, label)}

\* the position of a label in the list of the fallback loop
LabelRank(label) == CHOOSE k \in DOMAIN ArticleTypeLabels : ArticleTypeLabels[k] = label

\* C12: the type detect_article_type returns is one of the four labels: the
\* label the (cleaned, lowered) reply starts with if any; otherwise a label
\* that occurs in the reply, the first of the list news, op-ed, feature,
\* interview that does; otherwise news.
C12_TypePriority ==
    type_pc = "returned" =>
        /\ type_result.value.raw_response
              = _clean_response(_extract_claude_content(type_api))
        /\ type_result.value.type \in TypeLabels
        /\ LabelsAtStart(Lower(type_result.value.raw_response)) # {} =>
              type_result.value.type \in LabelsAtStart(Lower(type_result.value.raw_response))
        /\ (/\ LabelsAtStart(Lower(type_result.value.raw_response)) = {}
            /\ LabelsIn(Lower(type_result.value.raw_response)) # {}) =>
              /\ type_result.value.type \in LabelsIn(Lower(type_result.value.raw_response))
              /\ \A label \in LabelsIn(Lower(type_result.value.raw_response)) :
                    LabelRank(type_result.value.type) <= LabelRank(label)
        /\ LabelsIn(Lower(type_result.value.raw_response)) = {} =>
              type_result.value.type = "news"

C12_Witness ==
    /\ type_pc = "returned"
    /\ type_api.text = "feature (not an interview) or news"
    /\ type_result.value.type = "feature"
    /\ type_result.value.explanation = "not an interview"

(***************************************************************************)
(* Properties of get_summary (SummarySpec)                                 *)
(***************************************************************************)
\* the arguments pass the checks of get_summary that are not about the
\* sentence count
OtherChecksPass(req) ==
    /\ req.article_text # "" /\ req.publication # ""
    /\ ~(req.article_type = "op-ed" /\ Falsy(req.author))

\* C13: get_summary raises a validation error for every sentence_count below
\* 2 or above 6, and raises none for a sentence_count from 2 to 6 (the other
\* arguments being valid).
C13_SentenceCountRange ==
    summary_pc # "idle" =>
        /\ (summary_request.sentence_count < 2 \/ summary_request.sentence_count > 6) =>
              /\ summary_pc = "raised"
              /\ summary_result.kind = "ValueError"
              /\ summary_result.calls = <<>>
              /\ OtherChecksPass(summary_request) =>
                    summary_result.error = "Sentence count must be between 2 and 6"
        /\ (/\ summary_request.sentence_count \in 2..6
            /\ OtherChecksPass(summary_request)) =>
              /\ summary_result.kind # "ValueError"
              /\ Tried(summary_result.calls, "summary")

C13_Witness ==
    /\ summary_pc = "raised"
    /\ summary_request.sentence_count = 7
    /\ summary_request.article_type = "news"
    /\ summary_result.error = "Sentence count must be between 2 and 6"

\* C14: get_summary rejects a request of type op-ed or interview whose
\* author is missing or empty with a validation error, before a prompt is
\* built or a call is made.
C14_AuthorRequired ==
    (/\ summary_pc # "idle"
     /\ summary_request.article_type \in {"op-ed", "interview"}
     /\ Falsy(summary_request.author)) =>
        /\ summary_pc = "raised"
        /\ summary_result.kind = "ValueError"
        /\ summary_result.calls = <<>>
        /\ summary_result.prompt = ""

OpEdOpening(publication, author_intro) ==
    "Begin with '" \o publication \o " carries an op-ed by " \o author_intro
    \o "' and include"

\* C16: a valid op-ed request makes exactly one role-extraction call before
\* the summary call, the other types make none; when the role-extraction
\* call fails the opening clause names the bare author, the summary call is
\* still made and the request fails only if the summary call does.
C16_RoleCallNeverFails ==
    (summary_pc # "idle" /\ summary_result.kind # "ValueError") =>
        /\ summary_result.calls =
              (IF summary_request.article_type = "op-ed"
               THEN <<"role-extraction", "summary">> ELSE <<"summary">>)
        /\ (/\ summary_request.article_type = "op-ed"
            /\ summary_outs.role_api.kind = "raise") =>
              /\ Contains(summary_result.prompt,
                          OpEdOpening(summary_request.publication,
                                      summary_request.author.value))
              /\ summary_outs.main_api.kind # "unused"
              /\ (summary_pc = "raised") = (summary_outs.main_api.kind = "raise")

C16_Witness ==
    /\ summary_pc = "returned"
    /\ summary_request.article_type = "op-ed"
    /\ summary_outs.role_api.kind = "raise"
    /\ summary_result.calls = <<"role-extraction", "summary">>
    /\ summary_result.value = "The Guardian reports that the council met. It voted."

\* the role-extraction reply is the sentinel, whitespace around it aside
NoRoleReply(role_api) ==
    role_api.kind = "ok" /\ Strip(_extract_claude_content(role_api)) = "NO_ROLE"

\* C17: for an op-ed whose role-extraction reply is the NO_ROLE sentinel the
\* opening clause of the user prompt names the bare author and the prompt
\* contains no sentinel text.
C17_NoRoleBareAuthor ==
    (/\ summary_pc # "idle" /\ summary_result.kind # "ValueError"
     /\ summary_request.article_type = "op-ed"
     /\ NoRoleReply(summary_outs.role_api)) =>
        /\ Contains(summary_result.prompt,
                    OpEdOpening(summary_request.publication, summary_request.author.value))
        /\ ~Contains(summary_result.prompt, "NO_ROLE")

C17_Witness ==
    /\ summary_pc = "returned"
    /\ summary_request.article_type = "op-ed"
    /\ summary_request.author = Some("Ann Author")
    /\ summary_outs.role_api.text = " NO_ROLE\n"
    /\ Contains(summary_result.prompt, "carries an op-ed by Ann Author' and include")

\* C20: the user prompt of a valid news request with publication P and
\* sentence count n asks for n sentences, for no other number of sentences,
\* and contains 'P reports that'.
C20_NewsPrompt ==
    (/\ summary_pc # "idle" /\ summary_result.kind # "ValueError"
     /\ summary_request.article_type = "news") =>
        /\ summary_request.sentence_count \in 2..6
        /\ Contains(summary_result.prompt, summary_request.publication \o " reports that")
        /\ StartsWith(summary_result.prompt,
                      "Summarise this news article in "
                      \o ToString(summary_request.sentence_count) \o " *short* sentences. ")
        /\ \A m \in 0..MaxSentenceCount :
              Contains(summary_result.prompt, ToString(m) \o " *short* sentences")
                  => m = summary_request.sentence_count

C20_Witness ==
    /\ summary_pc = "returned"
    /\ summary_request.article_type = "news"
    /\ summary_request.publication = "The Guardian"
    /\ summary_request.sentence_count = 3
    /\ Contains(summary_result.prompt, "The Guardian reports that")
    /\ StartsWith(summary_result.prompt, "Summarise this news article in 3 *short* sentences.")

(***************************************************************************)
(* Properties of handle_submit (AppSpec)                                   *)
(***************************************************************************)
\* the form has client tracking on with a name the article does not mention
ClientNotMentioned(f) ==
    /\ f.use_client_tracking
    /\ Strip(f.client_name) # ""
    /\ count_client_mentions(f.article_text, Strip(f.client_name)) = 0

\* C15: a run of handle_submit on a form whose client name has no mention
\* in the article text ends with an error message and without a call of
\* get_summary; every call of get_summary handle_submit makes with a
\* non-empty client_name carries a client_mention_count above 0.
C15_ClientMustBeMentioned ==
    last_handler = "handle_submit" =>
        /\ ClientNotMentioned(form) =>
              /\ handler_calls = <<>>
              /\ ~session_state.error_message.isNone
              /\ session_state.error_message.value # ""
        /\ \A i \in DOMAIN handler_calls :
              ~Falsy(handler_calls[i].request.client_name) =>
                  /\ ~handler_calls[i].request.client_mention_count.isNone
                  /\ handler_calls[i].request.client_mention_count.value > 0

C15_Witness ==
    /\ last_handler = "handle_submit"
    /\ has_summarizer
    /\ form.use_client_tracking /\ form.client_name = "Zeta"
    /\ handler_calls = <<>>
    /\ session_state.error_message
          = Some("'Zeta' was not found in the article text. "
                 \o "Please check the client name and try again.")

(***************************************************************************)
(* Properties of _clean_response (CleanSpec)                               *)
(***************************************************************************)
\* C18: _clean_response applied to its own result returns that result.
C18_Idempotent ==
    clean_pc = "twice" => clean_output = clean_previous

WrapperPrefix == "TextBlock(text=\""

WrapperSuffix == "\")"

\* x is TextBlock(text="S") for an inner text S without double quotes
IsWrapped(x) ==
    /\ Len(x) >= Len(WrapperPrefix) + Len(WrapperSuffix)
    /\ StartsWith(x, WrapperPrefix)
    /\ SubSeq(x, Len(x) - Len(WrapperSuffix) + 1, Len(x)) = WrapperSuffix
    /\ ~Contains(SubSeq(x, Len(WrapperPrefix) + 1, Len(x) - Len(WrapperSuffix)), "\"")

InnerText(x) == SubSeq(x, Len(WrapperPrefix) + 1, Len(x) - Len(WrapperSuffix))

\* C19: for TextBlock(text="S") with S free of double quotes _clean_response
\* returns S with line breaks and whitespace runs collapsed to single spaces
\* and trimmed.
C19_Unwrapped ==
    (clean_pc = "once" /\ IsWrapped(clean_input)) =>
        clean_output = Strip(CollapseWhitespace(FlattenLineBreaks(InnerText(clean_input)),
                                                FALSE))

(***************************************************************************)
(* C21: count_client_mentions counts each whole-word, case-insensitive     *)
(* occurrence of the name once, with or without a trailing 's or s         *)
(***************************************************************************)
\* the character of text at position i is not a word character, or there is
\* no such position
NoWordCharAt(text, i) == i < 1 \/ i > Len(text) \/ ~IsWordChar(Char(text, i))

\* name stands at position i of text as a whole word, alone or followed by
\* a possessive ending
WholeWordAt(text, name, i) ==
    /\ i + Len(name) - 1 <= Len(text)
    /\ SubSeq(text, i, i + Len(name) - 1) = name
    /\ NoWordCharAt(text, i - 1)
    /\ \/ NoWordCharAt(text, i + Len(name))
       \/ /\ Char(text, i + Len(name)) = "s"
          /\ NoWordCharAt(text, i + Len(name) + 1)

WholeWordOccurrences(text, name) ==
    Cardinality({ i \in 1..Len(text) : WholeWordAt(Lower(text), Lower(Strip(name)), i) })

\* C21: the count returned is the number of positions at which the name
\* stands as a whole word, compared without regard to case and with an
\* optional possessive ending, each counted once; it is 0 for an empty name
\* or an empty text, and 2 for the name Acme in the text "Acme makes
\* widgets. Acme's factory is large."
C21_WholeWordCount ==
    mention_pc = "returned" =>
        /\ mention_count = IF mention_text = "" \/ mention_name = "" THEN 0
                           ELSE WholeWordOccurrences(mention_text, mention_name)
        /\ (mention_text = MentionExample /\ mention_name = "Acme") => mention_count = 2

\* the example of the specification has been counted
C21_Witness ==
    /\ mention_pc = "returned"
    /\ mention_text = MentionExample
    /\ mention_name = "Acme"
    /\ mention_count = 2

(***************************************************************************)
(* C24: the known prefixes are stripped iteratively (PublicationSpec)      *)
(***************************************************************************)
\* host is d with at most n known prefixes put in front of it, in any order
RECURSIVE PrefixedForm(_, _, _)
PrefixedForm(host, d, n) ==
    \/ host = d
    \/ /\ n > 0
       /\ \E k \in DOMAIN prefixes_to_remove :
              /\ StartsWith(host, prefixes_to_remove[k])
              /\ PrefixedForm(From(host, Len(prefixes_to_remove[k]) + 1), d, n - 1)

\* C24: when neither the host, nor the host without "www.", nor "www." and
\* the host is a key of the mapping, and the host is a mapped domain with a
\* sequence of known prefixes in front of it, the name returned is the
\* mapped name of that domain.
C24_IterativeStrip ==
    pub_pc = "returned" =>
        \A d \in DOMAIN publication_mappings :
            (Unmapped(PubHost) /\ PrefixedForm(PubHost, d, MaxPrefixDepth))
                => pub_result = publication_mappings[d]

(***************************************************************************)
(* C23: the opening clause of the op-ed prompt (SummarySpec)               *)
(***************************************************************************)
OpEdLead(publication) == "Begin with '" \o publication \o " carries an op-ed by "

OpEdClose == "' and include a brief overview of their main argument."

\* the text the op-ed prompt puts between "carries an op-ed by " and the
\* closing quote of the opening clause
OpeningAuthorIntro(prompt, start, lead) ==
    SubSeq(prompt, start + Len(lead), Find(prompt, OpEdClose, start + Len(lead)) - 1)

OpEdAuthorIntro(prompt, publication) ==
    OpeningAuthorIntro(prompt, Find(prompt, OpEdLead(publication), 1), OpEdLead(publication))

\* role is a role text as the claim describes it: not empty, without the
\* author's name, without commas or spaces around it
CleanRole(role, author) ==
    role # "" /\ ~Contains(role, author) /\ StripChars(role, " ,") = role

\* C23: for a valid op-ed request the opening clause is the bare author
\* name, or the author name, ", " and a non-empty role text without the
\* author's name and without commas or spaces around it; it is never the
\* author name followed by ", " and nothing.
C23_OpeningClause ==
    (/\ summary_pc # "idle" /\ summary_result.kind # "ValueError"
     /\ summary_request.article_type = "op-ed") =>
        LET author == summary_request.author.value
            intro == OpEdAuthorIntro(summary_result.prompt, summary_request.publication)
        IN /\ intro # author \o ", "
           /\ \/ intro = author
              \/ /\ StartsWith(intro, author \o ", ")
                 /\ CleanRole(From(intro, Len(author) + 3), author)

(***************************************************************************)
(* C25: the client-emphasis clause of the prompt (SummarySpec)             *)
(***************************************************************************)
ClientClauseLead(client_name) ==
    "\n\nIMPORTANT: The client '" \o client_name \o "' is mentioned "

\* how the clause of each tier goes on after "is mentioned "
TierWording(count) ==
    IF count = 1
    THEN "once in this article. You must accurately reflect this single mention"
    ELSE IF count \in {2, 3}
    THEN ToString(count) \o " times in this article. You must accurately reflect these mentions"
    ELSE ToString(count) \o " times in this article, suggesting they are likely a significant"

NoClientClause(client_name, count) ==
    Falsy(client_name) \/ count.isNone \/ count.value = 0

\* C25: the prompt of a valid request has no client clause when the client
\* name is empty or absent or the count is 0 or absent; otherwise it has the
\* clause of the tier of the count (1, 2 to 3, 4 or more), which names the
\* client and, but for the single-mention tier, states the count; the
\* article type does not change the clause.
C25_ClientClause ==
    (summary_pc # "idle" /\ summary_result.kind # "ValueError") =>
        IF NoClientClause(summary_request.client_name, summary_request.client_mention_count)
        THEN ~Contains(summary_result.prompt, "IMPORTANT: The client")
        ELSE /\ Contains(summary_result.prompt,
                         ClientClauseLead(summary_request.client_name.value)
                         \o TierWording(summary_request.client_mention_count.value))
             /\ summary_request.client_mention_count.value = 1 =>
                   ~Contains(summary_result.prompt, " times in this article")

\* a request with four mentions got the high-prominence clause
C25_Witness ==
    /\ summary_pc = "returned"
    /\ summary_request.client_name = Some("Acme")
    /\ summary_request.client_mention_count = Some(4)
    /\ Contains(summary_result.prompt,
                "The client 'Acme' is mentioned 4 times in this article, suggesting")

(***************************************************************************)
(* C26: get_summary validates before it calls any service (SummarySpec)    *)
(***************************************************************************)
\* the request fails one of the checks of the claim
InvalidRequest(req) ==
    \/ req.article_text = "" \/ req.publication = ""
    \/ req.article_type = "op-ed" /\ Falsy(req.author)
    \/ req.sentence_count \notin 2..6

\* C26: a call of get_summary ends in a validation error exactly when the
\* article text or the publication is empty, the author of an op-ed is
\* missing or the sentence count is outside 2..6, and then neither the
\* language detection nor the role extraction nor the summary call was made.
C26_ValidationFirst ==
    summary_pc # "idle" =>
        /\ (summary_result.kind = "ValueError") = InvalidRequest(summary_request)
        /\ summary_result.kind = "ValueError" =>
              /\ summary_pc = "raised"
              /\ summary_result.lang_stages = <<>>
              /\ summary_result.calls = <<>>
              /\ summary_outs = NoOuts

\* an op-ed request without author was refused before any call
C26_Witness ==
    /\ summary_pc = "raised"
    /\ summary_result.kind = "ValueError"
    /\ summary_request.article_type = "op-ed"
    /\ summary_request.author = None
    /\ summary_request.article_text # ""
    /\ summary_request.sentence_count = 3
    /\ summary_outs = NoOuts

(***************************************************************************)
(* C22, C28: handle_submit and the completion service (AppSpec)            *)
(***************************************************************************)
\* the number of main summary calls among the completion calls of a run
SummaryCallCount(completions) ==
    Cardinality({ k \in DOMAIN completions : completions[k] = "summary" })

\* the run of handle_submit made the main summary call and it failed
MainCallFailed(call) == call.raised /\ SummaryCallCount(call.completions) > 0

\* C22: a run of handle_submit calls get_summary at most once and that call
\* issues the main summary call at most once; when the main call fails the
\* run ends with an error message, the call made once and not repeated.
C22_NoRetry ==
    last_handler = "handle_submit" =>
        /\ Len(handler_calls) <= 1
        /\ \A i \in DOMAIN handler_calls :
              /\ SummaryCallCount(handler_calls[i].completions) <= 1
              /\ MainCallFailed(handler_calls[i]) =>
                    /\ SummaryCallCount(handler_calls[i].completions) = 1
                    /\ ~Falsy(session_state.error_message)

\* a submission whose main call failed ended with the message for an
\* overloaded service, the call made once
C22_Witness ==
    /\ last_handler = "handle_submit"
    /\ Len(handler_calls) = 1
    /\ handler_calls[1].raised
    /\ handler_calls[1].completions = <<"summary">>
    /\ session_state.error_message
          = Some("Anthropic's servers are currently overloaded. "
                 \o "Please wait a moment and try again.")

\* the run of handle_submit that just ended got a summary from get_summary
SubmitSucceeded(calls) == calls # <<>> /\ ~calls[1].raised

\* C28: a run of handle_submit changes the stored summary only when
\* get_summary returned; in every other run (an early return or an error of
\* get_summary) the summary keeps its value and error_message is set.
C28_SummaryFrame ==
    [][last_handler' = "handle_submit" =>
          /\ session_state'.summary # session_state.summary => SubmitSucceeded(handler_calls')
          /\ SubmitSucceeded(handler_calls') =>
                /\ ~session_state'.summary.isNone
                /\ session_state'.error_message = None
          /\ ~SubmitSucceeded(handler_calls') =>
                /\ session_state'.summary = session_state.summary
                /\ ~Falsy(session_state'.error_message)]_vars

\* a failed submission left the summary of an earlier one in place
C28_Witness ==
    /\ last_handler = "handle_submit"
    /\ handler_calls # <<>>
    /\ handler_calls[1].raised
    /\ session_state.summary = Some("The Guardian reports that the council met.")
    /\ ~Falsy(session_state.error_message)

(***************************************************************************)
(* C27, C29, C30: a session with scraping and resets (SessionSpec)         *)
(***************************************************************************)
\* C27: with AI analysis on, the article type of a request handle_submit
\* passes to get_summary was detected for the article text of that request.
C27_TypeOfCurrentText ==
    (/\ last_handler = "handle_submit"
     /\ form.use_ai_analysis
     /\ handler_calls # <<>>) =>
        detected_for = Some(handler_calls[1].request.article_text)

\* the entries reset_form clears
ClearedEntries ==
    {"summary", "error_message", "detected_type", "detection_explanation",
     "scraped_content", "detected_language", "clipboard_feedback"}

\* C29: form_reset_counter never decreases; a run of reset_form increases
\* it by exactly 1, leaves the seven entries of the previous article None,
\* and the new key has no stored validation result, so that none is shown
\* under it whatever was stored under the old key.
C29_ResetClears ==
    [][/\ session_state'.form_reset_counter >= session_state.form_reset_counter
       /\ last_handler' = "reset_form" =>
             /\ session_state'.form_reset_counter = session_state.form_reset_counter + 1
             /\ \A entry \in ClearedEntries : session_state'[entry] = None
             /\ session_state'.form_reset_counter \notin DOMAIN session_state'.client_validation
             /\ ShownValidation(session_state', [form' EXCEPT !.use_client_tracking = TRUE])
                    = None
             /\ form' = BlankForm]_vars

\* the form was reset after a validated submission and a detection: the
\* result is still stored under the old key
C29_Witness ==
    /\ last_handler = "reset_form"
    /\ session_state.form_reset_counter = 1
    /\ 0 \in DOMAIN session_state.client_validation
    /\ session_state.client_validation[0].count = 2
    /\ session_state.summary = None
    /\ session_state.detected_language = None

\* C30: after a run of handle_url_scraping that extracted the article
\* error_message is empty.
C30_NoStaleError ==
    (/\ last_handler = "handle_url_scraping"
     /\ handler_calls # <<>>
     /\ ~handler_calls[1].raised
     /\ handler_calls[1].value.success) =>
        Falsy(session_state.error_message)

====
